---- MODULE Spec2Model ----
(***************************************************************************)
(* Model of the query layer of cometbft-analyzer-backend: the events       *)
(* pagination handler, the time window resolver and the vote-latency table *)
(* handler, as served on the per-simulation routes registered in main.go.  *)
(*                                                                         *)
(* Time is counted in ticks, TicksPerSecond ticks to the second (the       *)
(* record store keeps sub-second timestamps, RFC3339 text keeps seconds).  *)
(* A query-string value is a record: Absent (the empty string), Bad (text  *)
(* that neither strconv.Atoi nor time.Parse accepts) or Str(n), the text   *)
(* of the integer n / of the instant n.                                    *)
(***************************************************************************)
EXTENDS Integers, Sequences, FiniteSets, TLC

\* ---------------------------------------------------------------- bounds
MaxEvents == 3
MaxVotes == 2
TicksPerSecond == 2
MaxPageItems == 4

\* ------------------------------------------------------ program constants
DefaultLimit == 10000
MaxLimit == 50000
DefaultPage == 1
DefaultPerPage == 100
MaxPerPage == 1000
SecondsPerMinute == 60

Minute == SecondsPerMinute * TicksPerSecond

\* ------------------------------------------------------------ time values
\* T1 and T2 lie in the same second, T3 lies exactly one minute after T2.
T1 == TicksPerSecond
T2 == TicksPerSecond + 1
T3 == T2 + Minute
StoreTimes == {T1, T2, T3}
NowValues == {T3, T3 + 1}

\* ----------------------------------------------------- query-string values
Absent == [k |-> "absent", v |-> 0]
Bad == [k |-> "bad", v |-> 0]
Str(n) == [k |-> "ok", v |-> n]

Min(a, b) == IF a < b THEN a ELSE b

\* strconv.Atoi: err # nil on text that is not a decimal integer.
Atoi(s) == [err |-> s.k # "ok", val |-> s.v]

\* time.Parse(time.RFC3339, s): accepts a fractional second, so every instant
\* has a text that parses back to it.
ParseRFC3339(s) == [err |-> s.k # "ok", t |-> s.v]

\* t.Format(time.RFC3339): the layout has no fractional second, the text
\* names the whole second that contains t.
FormatRFC3339Exact(t) == Str(t)
FormatRFC3339(t) == Str(t - (t % TicksPerSecond))

\* time.Time.IsZero; every stored timestamp is later than the zero time.
IsZero(t) == t = 0

\* ---------------------------------------------------------- record stores
\* tracer_events: the event types the events handler hides, one type it shows.
excludedTypes == {"p2pProposal", "p2pProposalPOL", "p2pNewRoundStep",
                  "p2pHasVote", "p2pVoteSetMaj23", "p2pVoteSetBits",
                  "p2pHasProposalBlockPart"}
EventTypes == {"sendVote", "p2pHasVote"}
EventDocs == [timestamp : StoreTimes, type : EventTypes]

\* vote_latencies: derived samples, latency in ticks.
Latencies == {1, 2}
VoteStatuses == {"confirmed", "unconfirmed"}
VoteDocs == [sentTime : StoreTimes, latency : Latencies, status : VoteStatuses]

TypeRank(ty) == IF ty = "sendVote" THEN 0 ELSE 1
StatusRank(st) == IF st = "confirmed" THEN 0 ELSE 1
EventKey(d) == d.timestamp * 2 + TypeRank(d.type)
VoteKey(d) == (d.sentTime * 4 + d.latency) * 2 + StatusRank(d.status)

\* A collection is a sequence of documents in insertion order; a document is
\* identified by its position.  The ingestion writes documents in time order.
EventStores == UNION {{s \in [1..n -> EventDocs] :
                         \A i \in 1..(n-1) : EventKey(s[i]) <= EventKey(s[i+1])} :
                      n \in 0..MaxEvents}
VoteStores == UNION {{s \in [1..n -> VoteDocs] :
                        \A i \in 1..(n-1) : VoteKey(s[i]) <= VoteKey(s[i+1])} :
                     n \in 0..MaxVotes}

\* lookup: the collection named "events" of the simulation's database, which
\* the $lookup stages read; the handlers themselves read tracer_events.
\* summaries: the network_latency_nodepair_summary collection.
\* dateIsTime: whether bson.Unmarshal hands a stored date to a bson.M as a
\* time.Time.  The driver is not part of the repository: when it does not, the
\* type assertion on doc["timestamp"] fails and the timestamp used for the
\* cursors stays the zero time.
VARIABLES events, votes, dateIsTime, req, now, resp, ops, sorted, prev,
          session, pages, lookup, summaries

\* access: the store access a query request is waiting for: the seconds
\* elapsed since its context was made and the deadline of that context.
VARIABLES access

queryVars == <<events, votes, dateIsTime, req, now, resp, ops, sorted, prev,
               session, pages, lookup, summaries>>
\* The rate limiter: clients is RateLimiter.clients, mutex the goroutine that
\* holds RateLimiter.mutex, callers the position of each request goroutine
\* inside the middleware, wall the reading of time.Now().  meter keeps, for
\* each client, the number of requests let through at each reading of the
\* clock; arrived counts the requests that reached the middleware.
VARIABLES clients, mutex, callers, wall, meter, arrived

limiterVars == <<clients, mutex, callers, wall, meter, arrived>>

\* The simulation document of the control-plane collection, the upload and
\* process requests in progress with the copy of the document each has read,
\* and the ETL runs: the goroutine started by the creation (CreateRun) or by
\* the process request of a handler.
VARIABLES simulation, handlers, runs

etlVars == <<simulation, handlers, runs>>
serviceVars == <<access, limiterVars, etlVars>>
\* What the rate limiter, the query contexts and the simulation handlers
\* leave alone.
offLimiter == <<queryVars, access, etlVars>>
offAccess == <<queryVars, limiterVars, etlVars>>
offEtl == <<queryVars, access, limiterVars>>

MaxHandlers == 3
Handlers == 1..MaxHandlers
CreateRun == 0
RunIDs == {CreateRun} \cup Handlers
NoSimulation == [exists |-> FALSE, logFiles |-> <<>>, status |-> "",
                 processingStatus |-> ""]
NoHandler == [kind |-> "none", pc |-> "idle", read |-> NoSimulation,
              name |-> "", status |-> 0]
EtlIdle ==
    /\ simulation = NoSimulation
    /\ handlers = [h \in Handlers |-> NoHandler]
    /\ runs = [r \in RunIDs |-> "none"]
vars == <<queryVars, serviceVars>>

ClientIDs == {"ip1", "ip2"}
Callers == {"g1", "g2"}
NoHolder == "none"
NoClient == [exists |-> FALSE, tokens |-> 0, lastSeen |-> 0]
IdleCaller == [pc |-> "idle", clientID |-> "", at |-> 0, first |-> FALSE,
               before |-> 0, allowed |-> FALSE]
NoMeter == <<>>
LimiterIdle ==
    /\ clients = [c \in ClientIDs |-> NoClient]
    /\ mutex = NoHolder
    /\ callers = [g \in Callers |-> IdleCaller]
    /\ wall = 0
    /\ meter = [c \in ClientIDs |-> NoMeter]
    /\ arrived = 0

\* context.Background() carries no deadline.
NoDeadline == 0 - 1
NoAccess == [route |-> "none", phase |-> "idle", elapsed |-> 0,
             deadline |-> NoDeadline, status |-> 0, issued |-> 0,
             timedOut |-> FALSE]

\* No request is in progress outside the query handlers.
ServiceIdle == access = NoAccess /\ LimiterIdle /\ EtlIdle

\* -------------------------------------------------- requests and responses
NoCount == 0 - 1

\* A request with every query parameter left out.
NoQuery == [route |-> "none", id |-> "known", from |-> Absent, to |-> Absent,
            limit |-> Absent, cursor |-> Absent, before |-> Absent,
            segment |-> Absent, includeTotalCount |-> "",
            page |-> Absent, perPage |-> Absent, threshold |-> "",
            fault |-> "none"]

\* The JSON body and status of a reply; a nil pointer is Absent / NoCount.
NoResponse == [status |-> 0, error |-> "", data |-> <<>>, limit |-> 0,
               hasNext |-> FALSE, hasPrevious |-> FALSE,
               nextCursor |-> Absent, previousCursor |-> Absent,
               totalCount |-> NoCount,
               page |-> 0, perPage |-> 0, total |-> 0, totalPages |-> 0]

ErrorJSON(status, msg) == [NoResponse EXCEPT !.status = status, !.error = msg]

\* ------------------------------------------------------ utils/time.go
TimeWindowFromContextFromNow(fromStr, toStr, nowT) ==
    LET toT == IF toStr = Absent THEN nowT ELSE ParseRFC3339(toStr).t
        fromT == IF fromStr = Absent THEN nowT - Minute
                 ELSE ParseRFC3339(fromStr).t
    IN  [err |-> \/ (toStr # Absent /\ ParseRFC3339(toStr).err)
                 \/ (fromStr # Absent /\ ParseRFC3339(fromStr).err),
         from |-> fromT, to |-> toT]

TimeWindowFromContext(fromStr, toStr, nowT) ==
    IF fromStr = Absent /\ toStr = Absent
    THEN [err |-> FALSE, from |-> nowT - Minute, to |-> nowT]
    ELSE LET toT == IF toStr = Absent THEN nowT ELSE ParseRFC3339(toStr).t
             toErr == toStr # Absent /\ ParseRFC3339(toStr).err
             fromT == IF fromStr = Absent THEN toT - Minute
                      ELSE ParseRFC3339(fromStr).t
             fromErr == fromStr # Absent /\ ParseRFC3339(fromStr).err
         IN  [err |-> toErr \/ fromErr, from |-> fromT, to |-> toT]

\* ------------------------------------- handlers/consensus_events_handler.go
ParseLimitNoMax(limitStr) ==
    IF limitStr # Absent /\ ~Atoi(limitStr).err /\ Atoi(limitStr).val > 0
    THEN Atoi(limitStr).val
    ELSE DefaultLimit

ParseLimit(limitStr) ==
    IF /\ limitStr # Absent
       /\ ~Atoi(limitStr).err
       /\ Atoi(limitStr).val > 0
       /\ Atoi(limitStr).val <= MaxLimit
    THEN Atoi(limitStr).val
    ELSE DefaultLimit

SegmentSkipOneBased(segmentStr, limit) ==
    IF segmentStr # Absent /\ ~Atoi(segmentStr).err /\ Atoi(segmentStr).val > 0
    THEN Atoi(segmentStr).val * limit
    ELSE 0

SegmentSkip(segmentStr, limit) ==
    IF segmentStr # Absent /\ ~Atoi(segmentStr).err /\ Atoi(segmentStr).val > 0
    THEN (Atoi(segmentStr).val - 1) * limit
    ELSE 0

IncludeTotalCountAny(q) == q.includeTotalCount # ""

IncludeTotalCount(q) == q.includeTotalCount = "true"

HasTimeFilter(q) == q.from # Absent \/ q.to # Absent

\* matchConditions: the type exclusion and the timestamp bounds that the
\* request sets ($gte/$lte from the window, $gt from cursor, $lt from before).
MatchConditions(q, nowT) ==
    LET tw == TimeWindowFromContext(q.from, q.to, nowT)
    IN  [window |-> HasTimeFilter(q), gte |-> tw.from, lte |-> tw.to,
         cursor |-> q.cursor # Absent, gt |-> ParseRFC3339(q.cursor).t,
         before |-> q.before # Absent, lt |-> ParseRFC3339(q.before).t]

\* Does document d satisfy matchConditions m.
Matches(d, m) ==
    /\ d.type \notin excludedTypes
    /\ m.window => (d.timestamp >= m.gte /\ d.timestamp <= m.lte)
    /\ m.cursor => d.timestamp > m.gt
    /\ m.before => d.timestamp < m.lt

\* The $match stage: the documents of the collection that satisfy m.
MatchStage(m) == {i \in DOMAIN events : Matches(events[i], m)}

\* collection.CountDocuments(ctx, matchConditions)
CountDocuments(m) == Cardinality(MatchStage(m))

\* A $sort stage on one key: the store returns the documents in ascending
\* key order; the order of documents with equal keys is not fixed by the sort
\* and may differ between executions.
RECURSIVE SortAscending(_, _)
SortAscending(S, key) ==
    IF S = {} THEN {<<>>}
    ELSE LET firsts == {i \in S : \A j \in S : key[i] <= key[j]}
         IN  UNION {{<<i>> \o rest : rest \in SortAscending(S \ {i}, key)} :
                    i \in firsts}

\* The $sort stage {timestamp: 1} of the events pipeline.
SortStage(S) == SortAscending(S, [i \in DOMAIN events |-> events[i].timestamp])

\* The $skip and $limit stages.
SkipLimit(srt, skip, n) == SubSeq(srt, skip + 1, Min(Len(srt), skip + n))

FetchLimitExact(limit) == limit

FetchLimit(limit) == limit + 1

HasPreviousEitherBound(q) == q.cursor # Absent \/ q.before # Absent

HasPrevious(q) == q.cursor # Absent

\* eventWithTimestamp.timestamp of fetched document i: the stored timestamp
\* when the type assertion succeeds, the zero time otherwise.
ExtractTimestamp(i) == IF dateIsTime THEN events[i].timestamp ELSE 0

NextCursorOfFirst(eventsToReturn, hasNext) ==
    IF hasNext /\ Len(eventsToReturn) > 0
          /\ ~IsZero(ExtractTimestamp(eventsToReturn[1]))
    THEN FormatRFC3339(ExtractTimestamp(eventsToReturn[1]))
    ELSE Absent

NextCursor(eventsToReturn, hasNext) ==
    IF hasNext /\ Len(eventsToReturn) > 0
          /\ ~IsZero(ExtractTimestamp(eventsToReturn[Len(eventsToReturn)]))
    THEN FormatRFC3339(ExtractTimestamp(eventsToReturn[Len(eventsToReturn)]))
    ELSE Absent

PreviousCursor(eventsToReturn, hasPrevious) ==
    IF hasPrevious /\ Len(eventsToReturn) > 0
          /\ ~IsZero(ExtractTimestamp(eventsToReturn[1]))
    THEN FormatRFC3339(ExtractTimestamp(eventsToReturn[1]))
    ELSE Absent

\* The reply built from the documents the aggregate returned.
PaginatedEventsResponse(q, limit, all, totalCount) ==
    LET hasNext == Len(all) > limit
        eventsToReturn == IF hasNext /\ Len(all) > limit
                          THEN SubSeq(all, 1, limit) ELSE all
        hasPrevious == HasPrevious(q)
    IN  [NoResponse EXCEPT !.status = 200,
                           !.data = eventsToReturn,
                           !.limit = limit,
                           !.hasNext = hasNext,
                           !.hasPrevious = hasPrevious,
                           !.nextCursor = NextCursor(eventsToReturn, hasNext),
                           !.previousCursor =
                               PreviousCursor(eventsToReturn, hasPrevious),
                           !.totalCount = totalCount]

\* The handler: the set of outcomes [resp, ops, sorted] it can produce for
\* request q at time nowT; ops lists the store operations it executed and
\* sorted is the output of the $sort stage (empty when none ran).
GetConsensusEventsHandler(q, nowT) ==
    LET m == MatchConditions(q, nowT)
        limit == ParseLimit(q.limit)
        skip == SegmentSkip(q.segment, limit)
        counts == IncludeTotalCount(q)
        countOps == IF counts THEN <<"CountDocuments">> ELSE <<>>
        totalCount == IF counts THEN CountDocuments(m) ELSE NoCount
        Fail(status, msg, o) ==
            {[resp |-> ErrorJSON(status, msg), ops |-> o, sorted |-> <<>>]}
    IN  IF HasTimeFilter(q) /\ TimeWindowFromContext(q.from, q.to, nowT).err
        THEN Fail(400, "invalid time range", <<>>)
        ELSE IF q.cursor # Absent /\ ParseRFC3339(q.cursor).err
        THEN Fail(400, "invalid cursor format, use RFC3339", <<>>)
        ELSE IF q.before # Absent /\ ParseRFC3339(q.before).err
        THEN Fail(400, "invalid before format, use RFC3339", <<>>)
        ELSE IF counts /\ q.fault = "CountDocuments"
        THEN Fail(500, "failed to count events", countOps)
        ELSE IF q.fault = "Aggregate"
        THEN Fail(500, "failed to fetch events", countOps \o <<"Aggregate">>)
        ELSE {IF q.fault = "Decode" /\ SkipLimit(srt, skip, FetchLimit(limit)) # <<>>
              THEN [resp |-> ErrorJSON(500, "failed to decode event"),
                    ops |-> countOps \o <<"Aggregate">>, sorted |-> srt]
              ELSE IF q.fault = "CursorErr"
              THEN [resp |-> ErrorJSON(500, "cursor error"),
                    ops |-> countOps \o <<"Aggregate">>, sorted |-> srt]
              ELSE [resp |-> PaginatedEventsResponse(q, limit,
                                SkipLimit(srt, skip, FetchLimit(limit)),
                                totalCount),
                    ops |-> countOps \o <<"Aggregate">>, sorted |-> srt]
              : srt \in SortStage(MatchStage(m))}

\* ------------------------------------ handlers/simulation_metrics_handler.go
\* validateSimulationAndGetDB: the simulation lookup that precedes every
\* per-simulation query.
validateSimulationAndGetDB(q) ==
    IF q.id = "malformed"
    THEN [ok |-> FALSE, resp |-> ErrorJSON(400, "Invalid simulation ID"),
          ops |-> <<>>]
    ELSE IF q.id = "unknown"
    THEN [ok |-> FALSE, resp |-> ErrorJSON(404, "Simulation not found"),
          ops |-> <<"FindOne">>]
    ELSE IF q.fault = "FindOne"
    THEN [ok |-> FALSE, resp |-> ErrorJSON(500, "Database error"),
          ops |-> <<"FindOne">>]
    ELSE [ok |-> TRUE, resp |-> NoResponse, ops |-> <<"FindOne">>]

GetSimulationConsensusEventsHandler(q, nowT) ==
    LET v == validateSimulationAndGetDB(q)
    IN  IF ~v.ok
        THEN {[resp |-> v.resp, ops |-> v.ops, sorted |-> <<>>]}
        ELSE {[o EXCEPT !.ops = v.ops \o o.ops] :
                 o \in GetConsensusEventsHandler(q, nowT)}

\* ------------------------------------------------ metrics/vote_latencies.go
\* percentile key -> percent; an unknown key is read as p95.
PercentileValue(percentile) ==
    IF percentile = "p50" THEN 50
    ELSE IF percentile = "p99" THEN 99
    ELSE 95

\* First $match: confirmed samples sent inside the window.
ConfirmedInWindow(from, to) ==
    {i \in DOMAIN votes : /\ votes[i].status = "confirmed"
                          /\ votes[i].sentTime >= from
                          /\ votes[i].sentTime <= to}

\* $percentile over the group: the latency at rank ceil(n*p) of the ascending
\* latencies (what the store's digest returns on small inputs).
PercentileOf(S, p) ==
    LET srt == CHOOSE x \in SortAscending(S, [i \in DOMAIN votes |-> votes[i].latency]) : TRUE
        n == Len(srt)
        rank == (n * p + 99) \div 100
    IN  votes[srt[IF rank < 1 THEN 1 ELSE rank]].latency

\* Second $match: confirmed, in the window, latency at or above the threshold.
AboveThreshold(from, to, threshold) ==
    {i \in ConfirmedInWindow(from, to) : votes[i].latency >= threshold}

VoteLatencyResult(data, total) == [err |-> FALSE, Data |-> data, Total |-> total]

\* GetVoteLatencies without the return on an empty percentile result: the
\* count and data pipelines run with a zero threshold.
GetVoteLatenciesNoEarlyReturn(from, to, page, perPage, percentile, fault) ==
    LET sample == ConfirmedInWindow(from, to)
        threshold == IF sample = {} THEN 0
                     ELSE PercentileOf(sample, PercentileValue(percentile))
        matched == AboveThreshold(from, to, threshold)
        skip == (page - 1) * perPage
    IN  {[res |-> IF fault = "none"
                  THEN VoteLatencyResult(SkipLimit(srt, skip, perPage),
                                         Cardinality(matched))
                  ELSE [err |-> TRUE, Data |-> <<>>, Total |-> 0],
          ops |-> <<"Aggregate:percentile", "Aggregate:count", "Aggregate:data">>,
          sorted |-> srt]
         : srt \in SortAscending(matched,
                      [i \in DOMAIN votes |-> votes[i].sentTime])}

\* GetVoteLatencies: the set of outcomes [res, ops, sorted].
GetVoteLatencies(from, to, page, perPage, percentile, fault) ==
    LET sample == ConfirmedInWindow(from, to)
        ops1 == <<"Aggregate:percentile">>
        ops2 == ops1 \o <<"Aggregate:count">>
        ops3 == ops2 \o <<"Aggregate:data">>
        Err(o) == {[res |-> [err |-> TRUE, Data |-> <<>>, Total |-> 0],
                    ops |-> o, sorted |-> <<>>]}
    IN  IF fault = "Percentile" THEN Err(ops1)
        ELSE IF sample = {}
        THEN {[res |-> VoteLatencyResult(<<>>, 0), ops |-> ops1, sorted |-> <<>>]}
        ELSE LET threshold == PercentileOf(sample, PercentileValue(percentile))
                 matched == AboveThreshold(from, to, threshold)
                 skip == (page - 1) * perPage
             IN  IF fault = "Count" THEN Err(ops2)
                 ELSE IF fault = "Data" THEN Err(ops3)
                 ELSE {IF \/ fault = "CursorErr"
                          \/ fault = "Decode" /\ SkipLimit(srt, skip, perPage) # <<>>
                       THEN [res |-> [err |-> TRUE, Data |-> <<>>, Total |-> 0],
                             ops |-> ops3, sorted |-> srt]
                       ELSE [res |-> VoteLatencyResult(
                                        SkipLimit(srt, skip, perPage),
                                        Cardinality(matched)),
                             ops |-> ops3, sorted |-> srt]
                       : srt \in SortAscending(matched,
                                    [i \in DOMAIN votes |-> votes[i].sentTime])}

\* -------------------------------------------- handlers/metrics_handler.go
ParsePage(pageStr) ==
    IF pageStr # Absent /\ ~Atoi(pageStr).err /\ Atoi(pageStr).val > 0
    THEN Atoi(pageStr).val
    ELSE DefaultPage

ParsePerPage(perPageStr) ==
    IF /\ perPageStr # Absent
       /\ ~Atoi(perPageStr).err
       /\ Atoi(perPageStr).val > 0
       /\ Atoi(perPageStr).val <= MaxPerPage
    THEN Atoi(perPageStr).val
    ELSE DefaultPerPage

ParseThreshold(thresholdStr) ==
    IF thresholdStr \in {"p50", "p95", "p99"} THEN thresholdStr ELSE "p95"

GetVoteLatenciesHandler(q, nowT) ==
    LET tw == TimeWindowFromContext(q.from, q.to, nowT)
        page == ParsePage(q.page)
        perPage == ParsePerPage(q.perPage)
        threshold == ParseThreshold(q.threshold)
    IN  IF tw.err
        THEN {[resp |-> ErrorJSON(400, "invalid time range"), ops |-> <<>>,
               sorted |-> <<>>]}
        ELSE {[resp |-> IF o.res.err
                        THEN ErrorJSON(500, "store error")
                        ELSE [NoResponse EXCEPT
                                 !.status = 200,
                                 !.data = o.res.Data,
                                 !.page = page,
                                 !.perPage = perPage,
                                 !.total = o.res.Total,
                                 !.totalPages =
                                     (o.res.Total + perPage - 1) \div perPage],
               ops |-> o.ops, sorted |-> o.sorted]
              : o \in GetVoteLatencies(tw.from, tw.to, page, perPage,
                                       threshold, q.fault)}

GetSimulationVoteLatenciesHandler(q, nowT) ==
    LET v == validateSimulationAndGetDB(q)
    IN  IF ~v.ok
        THEN {[resp |-> v.resp, ops |-> v.ops, sorted |-> <<>>]}
        ELSE {[o EXCEPT !.ops = v.ops \o o.ops] :
                 o \in GetVoteLatenciesHandler(q, nowT)}

\* ----------------------------------------------------------------- inputs
TimeStrs == {Absent, Bad} \cup {Str(t) : t \in StoreTimes}
LimitStrs == {Absent, Bad, Str(0), Str(1), Str(2), Str(MaxLimit), Str(MaxLimit + 1)}
SegmentStrs == {Absent, Bad, Str(0 - 1), Str(0), Str(1), Str(2), Str(3)}
PageStrs == {Absent, Bad, Str(0), Str(1), Str(2)}
PerPageStrs == {Absent, Bad, Str(0), Str(1), Str(2), Str(MaxPerPage), Str(MaxPerPage + 1)}
SimulationIds == {"malformed", "unknown", "known"}

EventsQuery == [NoQuery EXCEPT !.route = "events"]
VotesQuery == [NoQuery EXCEPT !.route = "votes"]

\* Requests that page through the events: small limits, cursors, segments.
PagingRequests ==
    {[EventsQuery EXCEPT !.limit = l, !.cursor = c, !.before = b,
                         !.segment = s, !.includeTotalCount = i] :
        l \in {Str(1), Str(2)}, c \in TimeStrs \ {Bad},
        b \in {Absent, Str(T3)},
        s \in {Absent, Str(1), Str(2), Str(3)}, i \in {"", "true"}}

\* Requests that set the time window.
WindowRequests ==
    {[EventsQuery EXCEPT !.from = f, !.to = t, !.limit = l, !.cursor = c,
                         !.includeTotalCount = "true"] :
        f \in TimeStrs, t \in TimeStrs, l \in {Absent, Str(1)},
        c \in {Absent, Str(T1)}}

\* Requests with well-formed and malformed parameter texts: every pair of a
\* limit and a segment text, and every combination of absent and malformed
\* limit, segment, cursor and before.
ParseRequests ==
    {[EventsQuery EXCEPT !.limit = l, !.segment = s,
                         !.includeTotalCount = "true"] :
        l \in LimitStrs, s \in SegmentStrs}
    \cup {[EventsQuery EXCEPT !.limit = l, !.segment = s, !.cursor = c,
                              !.before = b, !.includeTotalCount = "true"] :
        l \in {Absent, Bad}, s \in {Absent, Bad}, c \in {Absent, Bad},
        b \in {Absent, Bad}}

EventFaults == {"none", "FindOne", "CountDocuments", "Aggregate", "Decode", "CursorErr"}

\* Requests during which the store fails, or that name no known simulation.
FaultRequests ==
    {[EventsQuery EXCEPT !.id = d, !.fault = x, !.includeTotalCount = i,
                         !.cursor = c] :
        d \in SimulationIds, x \in EventFaults, i \in {"", "true", "1"},
        c \in {Absent, Bad}}

EventsInputs ==
    {[q |-> q, now |-> T3] : q \in PagingRequests \cup ParseRequests \cup FaultRequests}
    \cup {[q |-> q, now |-> n] : q \in WindowRequests, n \in NowValues}

VoteFaults == {"none", "FindOne", "Percentile", "Count", "Data", "Decode", "CursorErr"}

VotesInputs ==
    {[q |-> [VotesQuery EXCEPT !.from = f, !.to = t], now |-> n] :
        f \in TimeStrs, t \in TimeStrs, n \in NowValues}
    \cup {[q |-> [VotesQuery EXCEPT !.from = Str(T1), !.to = Str(T3),
                                    !.page = g, !.perPage = pp, !.threshold = th],
           now |-> T3] :
        g \in PageStrs, pp \in PerPageStrs, th \in {"", "p50", "p99", "p42"}}
    \cup {[q |-> [VotesQuery EXCEPT !.from = Str(T1), !.to = Str(T3),
                                    !.id = d, !.fault = x],
           now |-> T3] :
        d \in SimulationIds, x \in VoteFaults}

\* -------------------------------------------------------------- behaviour
\* The handlers keep no state between requests and never write to the
\* collections, so a behaviour follows one client conversation: a first
\* request, then repeats of it or requests for the next page.  Each handler
\* reads one collection only, so a behaviour fills the collection of the
\* route it calls and leaves the other one empty.
\* A client pages forward from a request without cursor and segment that
\* lists the whole collection (no from, no to).
SessionStart(q) ==
    /\ q.cursor = Absent /\ q.segment = Absent
    /\ q.from = Absent /\ q.to = Absent

SessionAfter(r) ==
    IF r.status # 200 THEN "none" ELSE IF r.hasNext THEN "open" ELSE "done"

Init ==
    /\ ServiceIdle
    /\ events \in EventStores
    /\ votes \in VoteStores
    /\ events = <<>> \/ votes = <<>>
    \* only the events handler asserts the type of a stored date
    /\ dateIsTime \in (IF events = <<>> THEN {FALSE} ELSE BOOLEAN)
    /\ req = NoQuery
    /\ now = T3
    /\ resp = NoResponse
    /\ ops = <<>>
    /\ sorted = <<>>
    /\ prev = NoResponse
    /\ session = "none"
    /\ pages = <<>>
    /\ lookup = <<>>
    /\ summaries = <<>>

\* GET /v1/simulations/:id/events
EventsRequest ==
    /\ req.route = "none"
    /\ votes = <<>>
    /\ \E in \in EventsInputs :
      \E o \in GetSimulationConsensusEventsHandler(in.q, in.now) :
        /\ req' = in.q
        /\ now' = in.now
        /\ resp' = o.resp
        /\ ops' = o.ops
        /\ sorted' = o.sorted
        /\ prev' = NoResponse
        /\ session' = IF SessionStart(in.q) THEN SessionAfter(o.resp) ELSE "none"
        /\ pages' = IF SessionStart(in.q) /\ o.resp.status = 200
                    THEN o.resp.data ELSE <<>>
        /\ UNCHANGED <<serviceVars, lookup, summaries, events, votes, dateIsTime>>

\* The client asks for the next page: the same request with cursor set to the
\* nextCursor of the previous response.
NextPage ==
    /\ session = "open"
    /\ resp.nextCursor # Absent
    /\ Len(pages) < MaxPageItems
    /\ \E o \in GetSimulationConsensusEventsHandler(
                    [req EXCEPT !.cursor = resp.nextCursor], now) :
        /\ req' = [req EXCEPT !.cursor = resp.nextCursor]
        /\ resp' = o.resp
        /\ ops' = o.ops
        /\ sorted' = o.sorted
        /\ prev' = resp
        /\ session' = SessionAfter(o.resp)
        /\ pages' = IF o.resp.status = 200 THEN pages \o o.resp.data ELSE <<>>
        /\ UNCHANGED <<serviceVars, lookup, summaries, events, votes, dateIsTime, now>>

\* The client sends a request for a segment a second time.  prev keeps the
\* response to the previous request of the conversation.
RepeatRequest ==
    /\ req.route = "events"
    /\ req.segment.k = "ok"
    /\ resp.status = 200
    /\ prev = NoResponse
    /\ \E o \in GetSimulationConsensusEventsHandler(req, now) :
        /\ prev' = resp
        /\ resp' = o.resp
        /\ ops' = o.ops
        /\ sorted' = o.sorted
        /\ session' = "none"
        /\ pages' = <<>>
        /\ UNCHANGED <<serviceVars, lookup, summaries, events, votes, dateIsTime, req, now>>

\* GET /v1/simulations/:id/metrics/latency/votes
VoteLatenciesRequest ==
    /\ req.route = "none"
    /\ events = <<>>
    /\ \E in \in VotesInputs :
      \E o \in GetSimulationVoteLatenciesHandler(in.q, in.now) :
        /\ req' = in.q
        /\ now' = in.now
        /\ resp' = o.resp
        /\ ops' = o.ops
        /\ sorted' = o.sorted
        /\ prev' = NoResponse
        /\ session' = "none"
        /\ pages' = <<>>
        /\ UNCHANGED <<serviceVars, lookup, summaries, events, votes, dateIsTime>>

Next ==
    \/ EventsRequest
    \/ NextPage
    \/ RepeatRequest
    \/ VoteLatenciesRequest

Spec == Init /\ [][Next]_vars

\* ------------------------------------------- vote-latency table, paged
\* A client reads the vote-latency table page by page: page 1 first, then
\* page + 1 while the response says there are more pages.  Every page is a
\* request of its own, so the store runs the three pipelines again each time.
TableInputs ==
    {[VotesQuery EXCEPT !.from = f, !.to = Str(T3), !.page = Str(1),
                        !.perPage = pp, !.threshold = th] :
        f \in {Str(T1), Str(T2)}, pp \in {Str(1), Str(2)},
        th \in {"", "p50", "p95", "p99", "p42"}}

TableAfter(r) ==
    IF r.status # 200 THEN "none"
    ELSE IF r.page < r.totalPages THEN "open" ELSE "done"

TableInit ==
    /\ ServiceIdle
    /\ events = <<>>
    /\ votes \in VoteStores
    /\ dateIsTime = FALSE
    /\ req = NoQuery
    /\ now = T3
    /\ resp = NoResponse
    /\ ops = <<>>
    /\ sorted = <<>>
    /\ prev = NoResponse
    /\ session = "none"
    /\ pages = <<>>
    /\ lookup = <<>>
    /\ summaries = <<>>

\* GET /v1/simulations/:id/metrics/latency/votes?page=1
TableFirstPage ==
    /\ req.route = "none"
    /\ \E q \in TableInputs :
      \E o \in GetSimulationVoteLatenciesHandler(q, now) :
        /\ req' = q
        /\ resp' = o.resp
        /\ ops' = o.ops
        /\ sorted' = o.sorted
        /\ session' = TableAfter(o.resp)
        /\ pages' = IF o.resp.status = 200 THEN o.resp.data ELSE <<>>
        /\ UNCHANGED <<serviceVars, lookup, summaries, events, votes, dateIsTime, now, prev>>

\* The same request with page + 1.
TableNextPage ==
    /\ session = "open"
    /\ LET q == [req EXCEPT !.page = Str(resp.page + 1)]
       IN  \E o \in GetSimulationVoteLatenciesHandler(q, now) :
             /\ req' = q
             /\ resp' = o.resp
             /\ ops' = o.ops
             /\ sorted' = o.sorted
             /\ prev' = resp
             /\ session' = TableAfter(o.resp)
             /\ pages' = IF o.resp.status = 200 THEN pages \o o.resp.data
                         ELSE <<>>
             /\ UNCHANGED <<serviceVars, lookup, summaries, events, votes, dateIsTime, now>>

TableNext ==
    \/ TableFirstPage
    \/ TableNextPage

TableSpec == TableInit /\ [][TableNext]_vars

\* ------------------------------------- tracer events of the metric queries
\* The metric pipelines read vote events (sendVote by nodeId to
\* recipientPeerId, receiveVote by nodeId from sourcePeerId, both with
\* vote.height, vote.round and vote.validatorIndex) and round events
\* (enteringNewRound, receivedCompleteProposalBlock, with height).  A field a
\* document does not have is "" or NoVote or 0.
MaxJoinEvents == 3

Nodes == {"n1", "n2"}
NodePairs == {np \in Nodes \X Nodes : np[1] # np[2]}
NoVote == [height |-> 0, round |-> 0, validatorIndex |-> 0]
VoteKeys == {[height |-> 1, round |-> 0, validatorIndex |-> 0],
             [height |-> 1, round |-> 1, validatorIndex |-> 0],
             [height |-> 2, round |-> 0, validatorIndex |-> 1]}
Heights == {1, 2}

SendDocs ==
    {[type |-> "sendVote", timestamp |-> t, nodeId |-> np[1],
      recipientPeerId |-> np[2], sourcePeerId |-> "", vote |-> v, height |-> 0] :
        t \in StoreTimes, np \in NodePairs, v \in VoteKeys}
RecvDocs ==
    {[type |-> "receiveVote", timestamp |-> t, nodeId |-> np[1],
      recipientPeerId |-> "", sourcePeerId |-> np[2], vote |-> v, height |-> 0] :
        t \in StoreTimes, np \in NodePairs, v \in VoteKeys}
RoundDocs ==
    {[type |-> ty, timestamp |-> t, nodeId |-> "n1",
      recipientPeerId |-> "", sourcePeerId |-> "", vote |-> NoVote,
      height |-> h] :
        ty \in {"enteringNewRound", "receivedCompleteProposalBlock"},
        t \in StoreTimes, h \in Heights}
TracerDocs == SendDocs \cup RecvDocs \cup RoundDocs

NodeRank(n) == IF n = "" THEN 0 ELSE IF n = "n1" THEN 1 ELSE 2
TracerTypeRank(ty) ==
    IF ty = "sendVote" THEN 0
    ELSE IF ty = "receiveVote" THEN 1
    ELSE IF ty = "enteringNewRound" THEN 2
    ELSE 3
TracerKey(d) ==
    (((((d.timestamp * 4 + TracerTypeRank(d.type)) * 3 + NodeRank(d.nodeId))
        * 3 + NodeRank(d.recipientPeerId)) * 3 + NodeRank(d.sourcePeerId))
        * 3 + d.vote.height + d.height) * 4
    + d.vote.round * 2 + d.vote.validatorIndex

\* The ingestion writes documents in time order.
TracerStores(max) ==
    UNION {{s \in [1..n -> TracerDocs] :
              \A i \in 1..(n-1) : TracerKey(s[i]) <= TracerKey(s[i+1])} :
           n \in 0..max}

\* matchTime, the first stage of the four tracer pipelines: inside the
\* window and of type sendVote.
MatchTime(from, to) ==
    {i \in DOMAIN events : /\ events[i].timestamp >= from
                           /\ events[i].timestamp <= to
                           /\ events[i].type = "sendVote"}

\* The $lookup of the two vote joins, for the sendVote document i: the
\* receiveVote documents of collection "events" with the same height, round
\* and validatorIndex, sent by i's node and received by i's recipient.  The
\* sub-pipeline has no time condition.
LookupReceives(i) ==
    {j \in DOMAIN lookup :
        /\ lookup[j].type = "receiveVote"
        /\ lookup[j].vote.height = events[i].vote.height
        /\ lookup[j].vote.round = events[i].vote.round
        /\ lookup[j].vote.validatorIndex = events[i].vote.validatorIndex
        /\ lookup[j].sourcePeerId = events[i].nodeId
        /\ lookup[j].nodeId = events[i].recipientPeerId}

\* $lookup, $unwind and $replaceRoot: one document per (send, receive) pair.
\* send and recv are the positions of the two documents, kept so that two
\* points with equal fields stay two points.
JoinedPoints(sends) ==
    UNION {{[send |-> i, recv |-> j,
             height |-> events[i].vote.height,
             sender |-> events[i].nodeId,
             receiver |-> events[i].recipientPeerId,
             latencyMs |-> lookup[j].timestamp - events[i].timestamp] :
               j \in LookupReceives(i)} : i \in sends}

\* ComputeBlockLatencyTimeSeries: the result array as the set of its
\* elements (the trailing $sort by height orders them).
ComputeBlockLatencyTimeSeries(from, to, fault) ==
    LET sends == {i \in MatchTime(from, to) : events[i].type = "sendVote"}
    IN  IF fault = "Aggregate"
        THEN {[err |-> TRUE, data |-> {}]}
        ELSE {[err |-> FALSE, data |-> JoinedPoints(sends)]}

\* --------------------------------------------------- ComputeLatencyStats
Buckets == 10

RECURSIVE SumOver(_, _)
SumOver(S, f) ==
    IF S = {} THEN 0
    ELSE LET x == CHOOSE y \in S : TRUE
         IN  f[x] + SumOver(S \ {x}, f)

\* A number of the store or of the response: null, or the fraction num/den.
Null == [k |-> "null", num |-> 0, den |-> 1]
Num(n, d) == [k |-> "num", num |-> n, den |-> d]

\* $stdDevSamp over the latencies of the points G: null for fewer than two
\* values; otherwise the square root of (n*sum(x^2) - sum(x)^2) / (n*(n-1)).
\* The model keeps the fraction under the root.
StdDevSamp(G) ==
    LET n == Cardinality(G)
        s1 == SumOver(G, [p \in G |-> p.latencyMs])
        s2 == SumOver(G, [p \in G |-> p.latencyMs * p.latencyMs])
    IN  IF n < 2 THEN Null ELSE Num(n * s2 - s1 * s1, n * (n - 1))

\* The jitter facet: $group by (sender, receiver), then $project.
JitterFacet(points) ==
    {[sender |-> g[1], receiver |-> g[2],
      stdDevMs |-> StdDevSamp({p \in points : p.sender = g[1]
                                              /\ p.receiver = g[2]})] :
        g \in {<<p.sender, p.receiver>> : p \in points}}

\* The histogram facet: $bucketAuto into Buckets buckets.  With at most
\* Buckets distinct latencies there is one bucket per distinct value v, with
\* _id.min = v and _id.max = the next value (v itself for the last bucket).
BucketAuto(points) ==
    LET vals == {p.latencyMs : p \in points}
        srt == CHOOSE s \in SortAscending(vals, [v \in vals |-> v]) : TRUE
    IN  [b \in 1..Len(srt) |->
            [min |-> srt[b],
             max |-> IF b < Len(srt) THEN srt[b + 1] ELSE srt[b],
             count |-> Cardinality({p \in points : p.latencyMs = srt[b]})]]

\* cur.All into []LatencyHistogramBucket: the struct has fields lower, upper
\* and count; the bucket document has _id.min, _id.max and count, so lower and
\* upper keep their zero value.
DecodeHistogram(buckets) ==
    [b \in DOMAIN buckets |->
        [lower |-> 0, upper |-> 0, count |-> buckets[b].count]]

\* cur.All into []LatencyJitter, StdDevMs float32.  A null stdDevMs is either
\* read as the zero value or refused by the decoder (nullIsZero).
DecodeJitter(jitter, nullIsZero) ==
    IF \E e \in jitter : e.stdDevMs = Null /\ ~nullIsZero
    THEN [err |-> TRUE, val |-> {}]
    ELSE [err |-> FALSE,
          val |-> {[e EXCEPT !.stdDevMs = IF e.stdDevMs = Null THEN Num(0, 1)
                                          ELSE e.stdDevMs] : e \in jitter}]

\* ComputeLatencyStats: the same join as the time series, then $facet.  The
\* $facet stage always yields one document, so the "no data" return is dead.
ComputeLatencyStats(from, to, fault) ==
    LET sends == {i \in MatchTime(from, to) : events[i].type = "sendVote"}
        points == JoinedPoints(sends)
        Err == [err |-> TRUE, data |-> [Histogram |-> <<>>, Jitter |-> {}]]
    IN  IF fault = "Aggregate" THEN {Err}
        ELSE {IF DecodeJitter(JitterFacet(points), z).err THEN Err
              ELSE [err |-> FALSE,
                    data |-> [Histogram |-> DecodeHistogram(BucketAuto(points)),
                              Jitter |-> DecodeJitter(JitterFacet(points), z).val]]
              : z \in BOOLEAN}

\* ---------------------------------------------- ComputeMessageSuccessRate
\* $project: height and the (sender, receiver) pair of a vote event.
PairOf(d) ==
    IF d.type = "sendVote" THEN <<d.nodeId, d.recipientPeerId>>
    ELSE <<d.sourcePeerId, d.nodeId>>

\* $group by (height, sender, receiver) and the rate $project.
SuccessRateGroups(docs) ==
    {LET members == {i \in docs : /\ events[i].vote.height = g[1]
                                  /\ PairOf(events[i]) = <<g[2], g[3]>>}
         sentCnt == Cardinality({i \in members : events[i].type = "sendVote"})
         recvCnt == Cardinality({i \in members : events[i].type = "receiveVote"})
     IN  [height |-> g[1], sender |-> g[2], receiver |-> g[3],
          sentCnt |-> sentCnt, recvCnt |-> recvCnt,
          successRate |-> IF sentCnt = 0 THEN Num(0, 1)
                          ELSE Num(recvCnt, sentCnt)] :
        g \in {<<events[i].vote.height, PairOf(events[i])[1],
                 PairOf(events[i])[2]>> : i \in docs}}

\* cur.All into []MessageSuccessRate: the struct's fields are height, sender,
\* receiver, sentcount, recvcount and successrate; the documents carry sentCnt
\* and recvCnt, which match no field, so SentCount and RecvCount stay zero.
DecodeSuccessRate(groups) ==
    {[height |-> g.height, sender |-> g.sender, receiver |-> g.receiver,
      sentCount |-> 0, recvCount |-> 0, successRate |-> g.successRate] :
        g \in groups}

ComputeMessageSuccessRate(from, to, fault) ==
    LET docs == {i \in MatchTime(from, to) :
                    events[i].type \in {"sendVote", "receiveVote"}}
    IN  IF fault = "Aggregate"
        THEN {[err |-> TRUE, data |-> {}]}
        ELSE {[err |-> FALSE, data |-> DecodeSuccessRate(SuccessRateGroups(docs))]}

\* ------------------------------------ ComputeBlockEndToEndLatencyByHeight
\* $percentile of a group accumulator: the latency at rank ceil(n*p) of the
\* ascending latencies of the points G.
PercentileOfPoints(G, p) ==
    LET srt == CHOOSE s \in SortAscending(G, [x \in G |-> x.latencyMs]) : TRUE
        rank == (Len(srt) * p + 99) \div 100
    IN  srt[IF rank < 1 THEN 1 ELSE rank].latencyMs

\* The $lookup for the enteringNewRound document i: the
\* receivedCompleteProposalBlock documents of "events" at the same height.
LookupBlocks(i) ==
    {j \in DOMAIN lookup :
        /\ lookup[j].type = "receivedCompleteProposalBlock"
        /\ lookup[j].height = events[i].height}

\* $lookup and $unwind: one document per (round start, complete block) pair.
EndToEndPoints(starts) ==
    UNION {{[start |-> i, end |-> j, height |-> events[i].height,
             latencyMs |-> lookup[j].timestamp - events[i].timestamp] :
               j \in LookupBlocks(i)} : i \in starts}

\* $group by height; $percentile yields an array with one element per
\* requested p, and the $project passes the arrays on as they are.
EndToEndGroups(points) ==
    {[height |-> h,
      p50Ms |-> <<PercentileOfPoints({x \in points : x.height = h}, 50)>>,
      p95Ms |-> <<PercentileOfPoints({x \in points : x.height = h}, 95)>>] :
        h \in {x.height : x \in points}}

\* ComputeBlockEndToEndLatencyByHeight.  cur.All decodes into
\* []BlockConsensusLatency, whose P50Ms and P95Ms are float32: a document
\* that carries arrays there does not decode.
ComputeBlockEndToEndLatencyByHeight(from, to, fault) ==
    LET starts == {i \in MatchTime(from, to) :
                      events[i].type = "enteringNewRound"}
        groups == EndToEndGroups(EndToEndPoints(starts))
    IN  IF fault = "Aggregate" \/ groups # {}
        THEN {[err |-> TRUE, data |-> {}]}
        ELSE {[err |-> FALSE, data |-> {}]}

\* --------------------------------------------------- ComputeVoteStatistics
\* vote_latencies documents with the fields the statistics group by.
\* Latencies are differences of two nodes' clocks: negative values occur.
MaxStatVotes == 3
NanosPerMilli == 1000000

StatLatencies == {0 - 3, 0 - 1, 2}
StatGroups == {<<"n1", "n2", "prevote">>, <<"n1", "n2", "precommit">>}
StatDocs ==
    {[sentTime |-> t, latency |-> l, status |-> st, senderPeerId |-> g[1],
      recipientPeerId |-> g[2], vote |-> [type |-> g[3]]] :
        t \in {T1, T3}, l \in StatLatencies, st \in VoteStatuses,
        g \in StatGroups}

StatKey(d) ==
    ((d.sentTime * 8 + d.latency + 3) * 2 + StatusRank(d.status)) * 2
    + (IF d.vote.type = "prevote" THEN 0 ELSE 1)

StatStores(max) ==
    UNION {{s \in [1..n -> StatDocs] :
              \A i \in 1..(n-1) : StatKey(s[i]) <= StatKey(s[i+1])} :
           n \in 0..max}

\* The spike threshold taken from the p95 of all confirmed samples instead
\* of the group's own.
SpikeThresholdOfAll(members) ==
    2 * PercentileOf({i \in DOMAIN votes : votes[i].status = "confirmed"}, 95)

\* $addFields p95Value and spikeThreshold: twice the group's p95.
SpikeThreshold(members) == 2 * PercentileOf(members, 95)

MaxLatency(members) ==
    CHOOSE m \in {votes[i].latency : i \in members} :
        \A i \in members : votes[i].latency <= m

\* $group by (sender, receiver, vote type), the $addFields stages, and the
\* conversion of the decoded row: percentiles and max from nanoseconds to
\* milliseconds, spikePerc = (spikes / count) * 100.
VoteStatisticsRows(sample) ==
    {LET members == {i \in sample :
                        /\ votes[i].senderPeerId = g[1]
                        /\ votes[i].recipientPeerId = g[2]
                        /\ votes[i].vote.type = g[3]}
         count == Cardinality(members)
         spikes == Cardinality({i \in members :
                                   votes[i].latency >= SpikeThreshold(members)})
     IN  [sender |-> g[1], receiver |-> g[2], voteType |-> g[3],
          count |-> count,
          p50 |-> Num(PercentileOf(members, 50), NanosPerMilli),
          p90 |-> Num(PercentileOf(members, 90), NanosPerMilli),
          p95 |-> Num(PercentileOf(members, 95), NanosPerMilli),
          p99 |-> Num(PercentileOf(members, 99), NanosPerMilli),
          max |-> Num(MaxLatency(members), NanosPerMilli),
          spikePerc |-> Num(spikes * 100, count)] :
        g \in {<<votes[i].senderPeerId, votes[i].recipientPeerId,
                 votes[i].vote.type>> : i \in sample}}

\* ComputeVoteStatistics: the result array as the set of its rows (the $sort
\* orders them by their group key, which is unique).
ComputeVoteStatistics(from, to, fault) ==
    IF fault = "Aggregate"
    THEN {[err |-> TRUE, data |-> {}]}
    ELSE {[err |-> FALSE, data |-> VoteStatisticsRows(ConfirmedInWindow(from, to))]}

\* --------------------------- handlers of the windowed tracer-event metrics
\* The handlers share one shape: window from the query string, 400 when
\* it does not parse, the Compute function, 500 on its error, 200 with its
\* result.
ComputeMetric(metric, from, to, fault) ==
    IF metric = "timeseries" THEN ComputeBlockLatencyTimeSeries(from, to, fault)
    ELSE IF metric = "stats" THEN ComputeLatencyStats(from, to, fault)
    ELSE IF metric = "success_rate" THEN ComputeMessageSuccessRate(from, to, fault)
    ELSE IF metric = "end_to_end"
    THEN ComputeBlockEndToEndLatencyByHeight(from, to, fault)
    ELSE ComputeVoteStatistics(from, to, fault)

WindowedMetricHandler(q, nowT, metric) ==
    LET tw == TimeWindowFromContext(q.from, q.to, nowT)
    IN  IF tw.err
        THEN {[resp |-> ErrorJSON(400, "invalid time range"), ops |-> <<>>,
               sorted |-> <<>>]}
        ELSE {[resp |-> IF o.err
                        THEN ErrorJSON(500, "store error")
                        ELSE [NoResponse EXCEPT !.status = 200,
                                                !.data = o.data],
               ops |-> <<"Aggregate">>, sorted |-> <<>>]
              : o \in ComputeMetric(metric, tw.from, tw.to, q.fault)}

GetBlockLatencyTimeSeriesHandler(q, nowT) ==
    WindowedMetricHandler(q, nowT, "timeseries")
GetLatencyStatsHandler(q, nowT) ==
    WindowedMetricHandler(q, nowT, "stats")
GetMessageSuccessRateHandler(q, nowT) ==
    WindowedMetricHandler(q, nowT, "success_rate")
GetBlockEndToEndLatencyHandler(q, nowT) ==
    WindowedMetricHandler(q, nowT, "end_to_end")

\* The per-simulation wrappers: validateSimulationAndGetDB, then the handler.
WithSimulation(q, outcomes) ==
    LET v == validateSimulationAndGetDB(q)
    IN  IF ~v.ok
        THEN {[resp |-> v.resp, ops |-> v.ops, sorted |-> <<>>]}
        ELSE {[o EXCEPT !.ops = v.ops \o o.ops] : o \in outcomes}

GetSimulationBlockLatencyTimeSeriesHandler(q, nowT) ==
    WithSimulation(q, GetBlockLatencyTimeSeriesHandler(q, nowT))
GetSimulationLatencyStatsHandler(q, nowT) ==
    WithSimulation(q, GetLatencyStatsHandler(q, nowT))
GetSimulationMessageSuccessRateHandler(q, nowT) ==
    WithSimulation(q, GetMessageSuccessRateHandler(q, nowT))
GetSimulationBlockEndToEndLatencyHandler(q, nowT) ==
    WithSimulation(q, GetBlockEndToEndLatencyHandler(q, nowT))

\* ------------------------------------------- tracer-event metric requests
JoinInputs(route) ==
    {[NoQuery EXCEPT !.route = route, !.from = w[1], !.to = w[2], !.fault = w[3]] :
        w \in {<<Str(T1), Str(T3), "none">>, <<Str(T1), Str(T2), "none">>,
               <<Bad, Absent, "none">>, <<Str(T1), Str(T3), "Aggregate">>}}

\* The collection "events" holds the documents of tracer_events, or the
\* database has no such collection.
JoinInit ==
    /\ ServiceIdle
    /\ events \in TracerStores(MaxJoinEvents)
    /\ lookup \in {events, <<>>}
    /\ votes = <<>>
    /\ summaries = <<>>
    /\ dateIsTime = FALSE
    /\ req = NoQuery
    /\ now = T3
    /\ resp = NoResponse
    /\ ops = <<>>
    /\ sorted = <<>>
    /\ prev = NoResponse
    /\ session = "none"
    /\ pages = <<>>

Answer(q, o) ==
    /\ req' = q
    /\ resp' = o.resp
    /\ ops' = o.ops
    /\ UNCHANGED <<serviceVars, events, lookup, votes, summaries, dateIsTime, now, sorted,
                   prev, session, pages>>

\* GET /v1/simulations/:id/metrics/latency/timeseries
BlockLatencyTimeSeriesRequest ==
    /\ req.route = "none"
    /\ \E q \in JoinInputs("timeseries") :
         \E o \in GetSimulationBlockLatencyTimeSeriesHandler(q, now) : Answer(q, o)

\* GET /v1/simulations/:id/metrics/latency/stats
LatencyStatsRequest ==
    /\ req.route = "none"
    /\ \E q \in JoinInputs("stats") :
         \E o \in GetSimulationLatencyStatsHandler(q, now) : Answer(q, o)

\* GET /v1/simulations/:id/metrics/messages/success_rate
MessageSuccessRateRequest ==
    /\ req.route = "none"
    /\ \E q \in JoinInputs("success_rate") :
         \E o \in GetSimulationMessageSuccessRateHandler(q, now) : Answer(q, o)

\* GET /v1/simulations/:id/metrics/latency/end_to_end
BlockEndToEndLatencyRequest ==
    /\ req.route = "none"
    /\ \E q \in JoinInputs("end_to_end") :
         \E o \in GetSimulationBlockEndToEndLatencyHandler(q, now) : Answer(q, o)

JoinNext ==
    \/ BlockLatencyTimeSeriesRequest
    \/ LatencyStatsRequest
    \/ MessageSuccessRateRequest
    \/ BlockEndToEndLatencyRequest

JoinSpec == JoinInit /\ [][JoinNext]_vars


GetVoteStatisticsHandler(q, nowT) ==
    WindowedMetricHandler(q, nowT, "statistics")
GetSimulationVoteStatisticsHandler(q, nowT) ==
    WithSimulation(q, GetVoteStatisticsHandler(q, nowT))

StatsInit ==
    /\ ServiceIdle
    /\ votes \in StatStores(MaxStatVotes)
    /\ events = <<>>
    /\ lookup = <<>>
    /\ summaries = <<>>
    /\ dateIsTime = FALSE
    /\ req = NoQuery
    /\ now = T3
    /\ resp = NoResponse
    /\ ops = <<>>
    /\ sorted = <<>>
    /\ prev = NoResponse
    /\ session = "none"
    /\ pages = <<>>

\* GET /v1/simulations/:id/metrics/vote/statistics
VoteStatisticsRequest ==
    /\ req.route = "none"
    /\ \E q \in JoinInputs("statistics") :
         \E o \in GetSimulationVoteStatisticsHandler(q, now) : Answer(q, o)

StatsNext == VoteStatisticsRequest

StatsSpec == StatsInit /\ [][StatsNext]_vars


\* ---------------------------------------------- metrics/network_latency.go
\* network_latency_nodepair_summary documents: node1Id, node2Id and
\* messageTypes, a map from message type to {count, p95LatencyMs}.  A stored
\* number has a BSON type: the writer stores an integer count as int32 when it
\* fits and as int64 otherwise, and a latency as int64 or as double.
MaxSummaries == 2

MsgTypes == {"vote", "blockPart"}
NoEntry == [ct |-> "none", count |-> 0, pt |-> "none", p95LatencyMs |-> 0]
TypedEntries ==
    {[ct |-> "int32", count |-> c, pt |-> "int64", p95LatencyMs |-> l] :
        c \in {0, 5, 10}, l \in {100, 200}}
OtherEntries ==
    {[ct |-> "int64", count |-> 10, pt |-> "int64", p95LatencyMs |-> 100],
     [ct |-> "int32", count |-> 10, pt |-> "double", p95LatencyMs |-> 100]}
SummaryDocs ==
    {[node1Id |-> np[1], node2Id |-> np[2],
      messageTypes |-> [vote |-> v, blockPart |-> b]] :
        np \in {<<"A", "B">>, <<"B", "C">>},
        v \in TypedEntries \cup OtherEntries \cup {NoEntry},
        b \in {NoEntry, [ct |-> "int32", count |-> 5, pt |-> "int64",
                         p95LatencyMs |-> 200]}}
SummaryStores(max) == UNION {[1..n -> SummaryDocs] : n \in 0..max}

\* Documents the loop processes, by position: a document whose Decode fails
\* is skipped (continue); cursor.Next returning false on a cursor error ends
\* the loop before the remaining documents, and cursor.Err is not read.
Processed(fault) ==
    IF fault = "Decode" THEN DOMAIN summaries \ {1}
    ELSE IF fault = "CursorErr" THEN DOMAIN summaries \ {Len(summaries)}
    ELSE DOMAIN summaries

\* The (document, message type) entries that pass the type assertions:
\* count is an int32 and p95LatencyMs an int64.
Accepted(docs) ==
    {e \in docs \X MsgTypes :
        /\ summaries[e[1]].messageTypes[e[2]].ct = "int32"
        /\ summaries[e[1]].messageTypes[e[2]].pt = "int64"}

EntryCount(e) == summaries[e[1]].messageTypes[e[2]].count
\* weightedP95 := float64(p95Latency) * float64(count)
WeightedP95(e) ==
    summaries[e[1]].messageTypes[e[2]].p95LatencyMs * EntryCount(e)

TotalWeighted(E) == SumOver(E, [e \in E |-> WeightedP95(e)])
TotalCount(E) == SumOver(E, [e \in E |-> EntryCount(e)])
\* stat.totalCount += int(count) / 2, once per entry.
TotalHalfCount(E) == SumOver(E, [e \in E |-> EntryCount(e) \div 2])

\* Entries credited to node n as node1 and as node2.
AsNode1(E, n) == {e \in E : summaries[e[1]].node1Id = n}
AsNode2(E, n) == {e \in E : summaries[e[1]].node2Id = n}

\* nodeStats[n]: totalWeightedP95 is the sum of weightedP95 / 2 over both
\* roles, kept here as twice its value; totalCount the sum of the halves.
NodeWeightedTwice(E, n) ==
    TotalWeighted(AsNode1(E, n)) + TotalWeighted(AsNode2(E, n))
NodeCount(E, n) ==
    TotalHalfCount(AsNode1(E, n)) + TotalHalfCount(AsNode2(E, n))

\* a > b for two fractions with positive denominators.
Greater(a, b) == a.num * b.den > b.num * a.den

\* The loop "if avgLatency > highest" over a Go map, whose iteration order
\* is not fixed: the key found is any key whose average is the largest, when
\* that average is above zero; otherwise the key stays empty.
Highest(avg) ==
    LET top == {k \in DOMAIN avg :
                   /\ Greater(avg[k], Num(0, 1))
                   /\ \A j \in DOMAIN avg : ~Greater(avg[j], avg[k])}
    IN  IF top = {} THEN {[key |-> "", latencyMs |-> Num(0, 1)]}
        ELSE {[key |-> k, latencyMs |-> avg[k]] : k \in top}

\* GetNetworkLatencyOverview: the set of outcomes.
GetNetworkLatencyOverview(fault) ==
    LET E == Accepted(Processed(fault))
        types == {mt \in MsgTypes :
                     TotalCount({e \in E : e[2] = mt}) > 0}
        nodes == {n \in {summaries[e[1]].node1Id : e \in E}
                        \cup {summaries[e[1]].node2Id : e \in E} :
                     NodeCount(E, n) > 0}
        typeAvg == [mt \in types |->
                       Num(TotalWeighted({e \in E : e[2] = mt}),
                           TotalCount({e \in E : e[2] = mt}))]
        nodeAvg == [n \in nodes |->
                       Num(NodeWeightedTwice(E, n), 2 * NodeCount(E, n))]
    IN  IF fault = "Find"
        THEN {[err |-> TRUE, data |-> <<>>]}
        ELSE {[err |-> FALSE,
               data |-> [overallWeightedAvgP95LatencyMs |->
                             IF TotalCount(E) > 0
                             THEN Num(TotalWeighted(E), TotalCount(E))
                             ELSE Num(0, 1),
                         messageTypeWithHighestAvgP95 |-> ht,
                         nodeWithHighestAvgP95 |-> hn,
                         messageTypeLatency |-> typeAvg,
                         nodeLatencyContribution |-> nodeAvg]]
              : ht \in Highest(typeAvg), hn \in Highest(nodeAvg)}

\* GetNetworkLatencyOverviewHandler: no window, 500 on error.
GetNetworkLatencyOverviewHandler(q) ==
    {[resp |-> IF o.err THEN ErrorJSON(500, "store error")
               ELSE [NoResponse EXCEPT !.status = 200, !.data = o.data],
      ops |-> <<"Find">>, sorted |-> <<>>]
     : o \in GetNetworkLatencyOverview(q.fault)}

GetSimulationNetworkLatencyOverviewHandler(q) ==
    WithSimulation(q, GetNetworkLatencyOverviewHandler(q))

OverviewInputs ==
    {[NoQuery EXCEPT !.route = "overview", !.id = d, !.fault = x] :
        d \in {"known", "unknown"},
        x \in {"none", "FindOne", "Find", "Decode", "CursorErr"}}

OverviewInit ==
    /\ ServiceIdle
    /\ summaries \in SummaryStores(MaxSummaries)
    /\ events = <<>>
    /\ lookup = <<>>
    /\ votes = <<>>
    /\ dateIsTime = FALSE
    /\ req = NoQuery
    /\ now = T3
    /\ resp = NoResponse
    /\ ops = <<>>
    /\ sorted = <<>>
    /\ prev = NoResponse
    /\ session = "none"
    /\ pages = <<>>

\* GET /v1/simulations/:id/metrics/network/latency/overview
NetworkLatencyOverviewRequest ==
    /\ req.route = "none"
    /\ \E q \in OverviewInputs :
         \E o \in GetSimulationNetworkLatencyOverviewHandler(q) : Answer(q, o)

\* The same request sent a second time over the unchanged collection.
RepeatOverviewRequest ==
    /\ req.route = "overview"
    /\ resp.status = 200
    /\ prev = NoResponse
    /\ \E o \in GetSimulationNetworkLatencyOverviewHandler(req) :
         /\ prev' = resp
         /\ resp' = o.resp
         /\ ops' = o.ops
         /\ UNCHANGED <<serviceVars, events, lookup, votes, summaries, dateIsTime, req, now,
                        sorted, session, pages>>

OverviewNext == NetworkLatencyOverviewRequest \/ RepeatOverviewRequest

OverviewSpec == OverviewInit /\ [][OverviewNext]_vars

\* ------------------------------------------- contexts of the store accesses
\* Seconds a store access is followed for.
MaxWait == 31

\* context.WithTimeout(context.Background(), 15*time.Second) of the metric
\* handlers and 30*time.Second of the events handler.
MetricsTimeoutSeconds == 15
EventsTimeoutSeconds == 30
TimeoutRoutes == {"events", "votes", "overview"}
HandlerTimeout(route) ==
    IF route = "events" THEN EventsTimeoutSeconds ELSE MetricsTimeoutSeconds

\* The loop over the cursor ended because the context expired: cursor.Next
\* returns false.  The events handler and GetVoteLatencies then read
\* cursor.Err and fail; GetNetworkLatencyOverview does not read it and
\* returns what it has accumulated.
StatusAfterCursorStops(route) == IF route = "overview" THEN 200 ELSE 500

Waiting == access.phase \in {"lookup", "aggregate", "cursor"}

\* A query request arrives: validateSimulationAndGetDB starts FindOne on the
\* simulations collection under context.Background().
QueryArrives ==
    /\ access.phase = "idle"
    /\ \E route \in TimeoutRoutes :
         access' = [NoAccess EXCEPT !.route = route, !.phase = "lookup"]
    /\ UNCHANGED offAccess

\* FindOne returns: ErrNoDocuments (404), another error (500), or the
\* simulation, after which the handler makes its context and starts the
\* query.
LookupAnswers ==
    /\ access.phase = "lookup"
    /\ \/ access' = [access EXCEPT !.phase = "done", !.status = 404]
       \/ access' = [access EXCEPT !.phase = "done", !.status = 500]
       \/ access' = [access EXCEPT !.phase = "aggregate", !.elapsed = 0,
                                   !.deadline = HandlerTimeout(access.route),
                                   !.issued = @ + 1]
    /\ UNCHANGED offAccess

\* Find / Aggregate returns before the deadline, with a cursor or an error.
AggregateAnswers ==
    /\ access.phase = "aggregate"
    /\ access.elapsed < access.deadline
    /\ \/ access' = [access EXCEPT !.phase = "cursor"]
       \/ access' = [access EXCEPT !.phase = "done", !.status = 500]
    /\ UNCHANGED offAccess

\* The cursor is read to its end before the deadline.
CursorExhausted ==
    /\ access.phase = "cursor"
    /\ access.elapsed < access.deadline
    /\ access' = [access EXCEPT !.phase = "done", !.status = 200]
    /\ UNCHANGED offAccess

\* The context expires while the driver waits for the store.
DeadlineExceeded ==
    /\ access.phase \in {"aggregate", "cursor"}
    /\ access.elapsed = access.deadline
    /\ access' = [access EXCEPT
                     !.phase = "done", !.timedOut = TRUE,
                     !.status = IF access.phase = "aggregate" THEN 500
                                ELSE StatusAfterCursorStops(access.route)]
    /\ UNCHANGED offAccess

\* A second passes while the store has not answered; a context with a
\* deadline does not outlive it.
SecondPasses ==
    /\ Waiting
    /\ access.elapsed < MaxWait
    /\ access.deadline # NoDeadline => access.elapsed < access.deadline
    /\ access' = [access EXCEPT !.elapsed = @ + 1]
    /\ UNCHANGED offAccess

TimeoutInit ==
    /\ ServiceIdle
    /\ events = <<>>
    /\ lookup = <<>>
    /\ votes = <<>>
    /\ summaries = <<>>
    /\ dateIsTime = FALSE
    /\ req = NoQuery
    /\ now = T3
    /\ resp = NoResponse
    /\ ops = <<>>
    /\ sorted = <<>>
    /\ prev = NoResponse
    /\ session = "none"
    /\ pages = <<>>

TimeoutNext ==
    \/ QueryArrives
    \/ LookupAnswers
    \/ AggregateAnswers
    \/ CursorExhausted
    \/ DeadlineExceeded
    \/ SecondPasses

TimeoutSpec == TimeoutInit /\ [][TimeoutNext]_vars

\* --------------------------------------------- middleware: the rate limiter
\* router.Use(middleware.RateLimitMiddleware(6000, 10)): the rate is the
\* configured one; the burst, a parameter of NewRateLimiter, is kept small.
Rate == 6000
Burst == 3
\* Readings of the clock per second, and the ticks followed before and after
\* a long idle period.
LimiterTicksPerSecond == 200
MaxLimiterTime == 2
\* Requests followed through the middleware.
MaxRequests == 5
LimiterMinute == SecondsPerMinute * LimiterTicksPerSecond
MinutesPerHour == 60
LimiterHour == MinutesPerHour * LimiterMinute

\* tokensToAdd := int(elapsed.Seconds() * float64(rl.rate) / 60.0)
\* The integer part of elapsed * Rate / LimiterMinute, by whole minutes and
\* the rest of a minute.
TokensToAdd(elapsed) ==
    (elapsed \div LimiterMinute) * Rate
        + ((elapsed % LimiterMinute) * Rate) \div LimiterMinute

SetCaller(g, c) == [callers EXCEPT ![g] = c]

\* The meter of client c after a request let through at the reading at.
Metered(c, at) ==
    LET m == meter[c]
    IN  IF m # <<>> /\ m[Len(m)].at = at
        THEN [m EXCEPT ![Len(m)].count = @ + 1]
        ELSE Append(m, [at |-> at, count |-> 1])

\* A request of client c reaches the middleware: clientID := c.ClientIP().
RequestArrives(g) ==
    /\ callers[g].pc = "idle"
    /\ arrived < MaxRequests
    /\ arrived' = arrived + 1
    /\ \E c \in ClientIDs :
         callers' = SetCaller(g, [IdleCaller EXCEPT !.pc = "lock",
                                                    !.clientID = c])
    /\ UNCHANGED <<offLimiter, clients, mutex, wall, meter>>

\* rl.mutex.Lock() returns when no goroutine holds the mutex.
CanLockAlways(g) == TRUE

CanLock(g) == mutex = NoHolder

\* rl.mutex.Lock(); now := time.Now()
Lock(g) ==
    /\ callers[g].pc = "lock"
    /\ CanLock(g)
    /\ mutex' = g
    /\ callers' = SetCaller(g, [callers[g] EXCEPT !.pc = "lookup", !.at = wall])
    /\ UNCHANGED <<offLimiter, arrived, clients, wall, meter>>

\* client, exists := rl.clients[clientID]; a new client starts with
\* burst - 1 tokens and the request is allowed.
Lookup(g) ==
    LET c == callers[g].clientID
    IN  /\ callers[g].pc = "lookup"
        /\ IF clients[c].exists
           THEN /\ callers' = SetCaller(g, [callers[g] EXCEPT !.pc = "refill"])
                /\ UNCHANGED <<clients, meter>>
           ELSE /\ clients' = [clients EXCEPT
                                  ![c] = [exists |-> TRUE, tokens |-> Burst - 1,
                                          lastSeen |-> callers[g].at]]
                /\ callers' = SetCaller(g, [callers[g] EXCEPT
                                               !.pc = "unlock", !.first = TRUE,
                                               !.before = Burst,
                                               !.allowed = TRUE])
                /\ meter' = [meter EXCEPT ![c] = Metered(c, callers[g].at)]
        /\ UNCHANGED <<offLimiter, arrived, mutex, wall>>

\* client.tokens = min(client.tokens+tokensToAdd, rl.burst)
\* client.lastSeen = now
Refill(g) ==
    LET c == callers[g].clientID
        tokens == Min(clients[c].tokens
                         + TokensToAdd(callers[g].at - clients[c].lastSeen),
                      Burst)
    IN  /\ callers[g].pc = "refill"
        /\ clients' = [clients EXCEPT ![c].tokens = tokens,
                                      ![c].lastSeen = callers[g].at]
        /\ callers' = SetCaller(g, [callers[g] EXCEPT !.pc = "check",
                                                      !.before = tokens])
        /\ UNCHANGED <<offLimiter, arrived, mutex, wall, meter>>

\* if client.tokens > 0 ... return false otherwise
Check(g) ==
    LET c == callers[g].clientID
    IN  /\ callers[g].pc = "check"
        /\ callers' = SetCaller(g, [callers[g] EXCEPT
                          !.pc = IF clients[c].tokens > 0 THEN "take"
                                 ELSE "unlock"])
        /\ UNCHANGED <<offLimiter, arrived, clients, mutex, wall, meter>>

\* client.tokens--; return true
Take(g) ==
    LET c == callers[g].clientID
    IN  /\ callers[g].pc = "take"
        /\ clients' = [clients EXCEPT ![c].tokens = @ - 1]
        /\ callers' = SetCaller(g, [callers[g] EXCEPT !.pc = "unlock",
                                                      !.allowed = TRUE])
        /\ meter' = [meter EXCEPT ![c] = Metered(c, callers[g].at)]
        /\ UNCHANGED <<offLimiter, arrived, mutex, wall>>

\* defer rl.mutex.Unlock(); the middleware then calls c.Next() or answers
\* 429 and the goroutine is done.
Unlock(g) ==
    /\ callers[g].pc = "unlock"
    /\ mutex' = IF mutex = g THEN NoHolder ELSE mutex
    /\ callers' = SetCaller(g, IdleCaller)
    /\ UNCHANGED <<offLimiter, arrived, clients, wall, meter>>

\* cleanup, on a tick of its ticker: under the mutex, delete the clients not
\* seen for more than an hour.
Cleanup ==
    /\ CanLock("cleanup")
    /\ clients' = [c \in ClientIDs |->
                      IF clients[c].exists
                         /\ wall - clients[c].lastSeen > LimiterHour
                      THEN NoClient ELSE clients[c]]
    /\ UNCHANGED <<offLimiter, arrived, mutex, callers, wall, meter>>

\* The clock advances by one reading.
ClockTick ==
    /\ wall % (LimiterHour + 1) < MaxLimiterTime
    /\ wall' = wall + 1
    /\ UNCHANGED <<offLimiter, arrived, clients, mutex, callers, meter>>

\* No request arrives for more than an hour.
LongIdle ==
    /\ wall < LimiterHour
    /\ \A g \in Callers : callers[g].pc = "idle"
    /\ wall' = wall + LimiterHour + 1
    /\ UNCHANGED <<offLimiter, arrived, clients, mutex, callers, meter>>

LimiterNext ==
    \/ \E g \in Callers : RequestArrives(g)
    \/ \E g \in Callers : Lock(g)
    \/ \E g \in Callers : Lookup(g)
    \/ \E g \in Callers : Refill(g)
    \/ \E g \in Callers : Check(g)
    \/ \E g \in Callers : Take(g)
    \/ \E g \in Callers : Unlock(g)
    \/ Cleanup
    \/ ClockTick
    \/ LongIdle

LimiterSpec == TimeoutInit /\ [][LimiterNext]_vars

\* ------------------------------------------ simulations: upload and process
Filenames == {"a.log", "b.log"}

\* The entry of handler h's file: the stored path is
\* fmt.Sprintf("%d_%s", len(simulation.LogFiles)+i, fileHeader.Filename)
\* inside the simulation's directory, from the document the handler has read.
LogFileInfo(by, index, name) ==
    [path |-> [index |-> index, name |-> name], by |-> by]

SetHandler(h, v) == [handlers EXCEPT ![h] = v]

\* CreateSimulationHandler, without log files (status logfile_required) or
\* with one: status processing, processingStatus pending, the file moved to
\* 0_<name>, and go processSimulationLogs(collection, simulation).
CreateSimulationHandler ==
    /\ ~simulation.exists
    /\ \/ /\ simulation' = [NoSimulation EXCEPT !.exists = TRUE,
                                               !.status = "logfile_required"]
          /\ UNCHANGED runs
       \/ \E name \in Filenames :
            /\ simulation' = [exists |-> TRUE,
                              logFiles |-> <<LogFileInfo(CreateRun, 0, name)>>,
                              status |-> "processing",
                              processingStatus |-> "pending"]
            /\ runs' = [runs EXCEPT ![CreateRun] = "spawned"]
    /\ UNCHANGED <<offEtl, handlers>>

\* UploadLogFileHandler up to the FindOne: 404 without the simulation,
\* otherwise the handler goes on with its copy of the document.
UploadLogFileHandlerFind(h) ==
    /\ handlers[h].pc = "idle"
    /\ IF ~simulation.exists
       THEN handlers' = SetHandler(h, [NoHandler EXCEPT !.kind = "upload",
                                          !.pc = "done", !.status = 404])
       ELSE \E name \in Filenames :
              handlers' = SetHandler(h, [kind |-> "upload", pc |-> "uploading",
                                         read |-> simulation, name |-> name,
                                         status |-> 0])
    /\ UNCHANGED <<offEtl, simulation, runs>>

\* Status written by the upload: processing / pending on the first upload,
\* otherwise the values read.
StatusAfterUpload(read) ==
    IF read.status = "logfile_required"
    THEN [status |-> "processing", processingStatus |-> "pending"]
    ELSE [status |-> read.status, processingStatus |-> read.processingStatus]

\* The rest of UploadLogFileHandler: the file is stored and UpdateOne sets
\* logFiles, status and processingStatus (200), or storing the file or the
\* update fails (500, the file removed).
UploadLogFileHandlerUpdate(h) ==
    LET read == handlers[h].read
        entry == LogFileInfo(h, Len(read.logFiles), handlers[h].name)
    IN  /\ handlers[h].pc = "uploading"
        /\ \/ /\ simulation' =
                    [simulation EXCEPT
                        !.logFiles = Append(read.logFiles, entry),
                        !.status = StatusAfterUpload(read).status,
                        !.processingStatus =
                            StatusAfterUpload(read).processingStatus]
              /\ handlers' = SetHandler(h, [handlers[h] EXCEPT
                                               !.pc = "done", !.status = 200])
           \/ /\ handlers' = SetHandler(h, [handlers[h] EXCEPT
                                               !.pc = "done", !.status = 500])
              /\ UNCHANGED simulation
        /\ UNCHANGED <<offEtl, runs>>

\* ProcessSimulationHandler up to its checks: 404, 400 without log files,
\* 409 when the document read says processing.
ProcessSimulationHandlerFind(h) ==
    /\ handlers[h].pc = "idle"
    /\ LET refused ==
               IF ~simulation.exists THEN 404
               ELSE IF Len(simulation.logFiles) = 0 THEN 400
               ELSE IF simulation.processingStatus = "processing" THEN 409
               ELSE 0
       IN  handlers' = SetHandler(h,
               IF refused # 0
               THEN [NoHandler EXCEPT !.kind = "process", !.pc = "done",
                                      !.status = refused]
               ELSE [NoHandler EXCEPT !.kind = "process", !.pc = "starting",
                                      !.read = simulation])
    /\ UNCHANGED <<offEtl, simulation, runs>>

\* The rest of ProcessSimulationHandler: UpdateOne sets processingStatus to
\* processing, the goroutine that runs cometbft-log-etl is started and the
\* answer is 202; or the update fails (500).
ProcessSimulationHandlerUpdate(h) ==
    /\ handlers[h].pc = "starting"
    /\ \/ /\ simulation' = [simulation EXCEPT !.processingStatus = "processing"]
          /\ runs' = [runs EXCEPT ![h] = "running"]
          /\ handlers' = SetHandler(h, [handlers[h] EXCEPT
                                           !.pc = "done", !.status = 202])
       \/ /\ handlers' = SetHandler(h, [handlers[h] EXCEPT
                                           !.pc = "done", !.status = 500])
          /\ UNCHANGED <<simulation, runs>>
    /\ UNCHANGED offEtl

\* processSimulationLogs, started by the creation: UpdateOne sets
\* processingStatus to processing, then cometbft-log-etl runs.
processSimulationLogs ==
    /\ runs[CreateRun] = "spawned"
    /\ simulation' = [simulation EXCEPT !.processingStatus = "processing"]
    /\ runs' = [runs EXCEPT ![CreateRun] = "running"]
    /\ UNCHANGED <<offEtl, handlers>>

\* cometbft-log-etl exits and the final UpdateOne records the outcome:
\* (processed, completed) or (failed, failed).
EtlRunExits(r) ==
    /\ runs[r] = "running"
    /\ \E ok \in BOOLEAN :
         simulation' = [simulation EXCEPT
                           !.status = IF ok THEN "processed" ELSE "failed",
                           !.processingStatus =
                               IF ok THEN "completed" ELSE "failed"]
    /\ runs' = [runs EXCEPT ![r] = "finished"]
    /\ UNCHANGED <<offEtl, handlers>>

EtlNext ==
    \/ CreateSimulationHandler
    \/ \E h \in Handlers : UploadLogFileHandlerFind(h)
    \/ \E h \in Handlers : UploadLogFileHandlerUpdate(h)
    \/ \E h \in Handlers : ProcessSimulationHandlerFind(h)
    \/ \E h \in Handlers : ProcessSimulationHandlerUpdate(h)
    \/ processSimulationLogs
    \/ \E r \in RunIDs : EtlRunExits(r)

EtlSpec == TimeoutInit /\ [][EtlNext]_vars

\* ================================================================ claims
\* The statements below are written against the request and the stored
\* documents, not against the handler's own intermediate values.

Range(f) == {f[i] : i \in DOMAIN f}
EventsOK == req.route = "events" /\ resp.status = 200
VotesOK == req.route = "votes" /\ resp.status = 200

\* The window a request asks for: to defaults to now, from to one minute
\* before to.
WindowHi == IF req.to = Absent THEN now ELSE req.to.v
WindowLo == IF req.from = Absent THEN WindowHi - Minute ELSE req.from.v

\* Events the request selects: shown type, inside the window when one is
\* given, after cursor, before before.
Selected ==
    {i \in DOMAIN events :
        /\ events[i].type = "sendVote"
        /\ (req.from # Absent \/ req.to # Absent)
              => (WindowLo <= events[i].timestamp /\ events[i].timestamp <= WindowHi)
        /\ req.cursor # Absent => events[i].timestamp > req.cursor.v
        /\ req.before # Absent => events[i].timestamp < req.before.v}

\* The whole second that contains instant t.
SecondOf(t) == (t \div TicksPerSecond) * TicksPerSecond

Ascending(seq) ==
    \A i \in 1..(Len(seq) - 1) :
        events[seq[i]].timestamp <= events[seq[i + 1]].timestamp

NoDuplicates(seq) == Cardinality(Range(seq)) = Len(seq)

\* C1: paging forward with cursor = previous nextCursor returns every
\* selected event exactly once, in ascending timestamp order, by the time a
\* response says hasNext = false.
C1_CursorPagesCompleteNoDuplicates ==
    /\ session # "none" => (NoDuplicates(pages) /\ Ascending(pages))
    /\ session = "done" =>
          Range(pages) = {i \in DOMAIN events :
                             /\ events[i].type = "sendVote"
                             /\ (req.from # Absent \/ req.to # Absent)
                                   => (WindowLo <= events[i].timestamp
                                       /\ events[i].timestamp <= WindowHi)
                             /\ req.before # Absent
                                   => events[i].timestamp < req.before.v}

\* C2: a page holds at most limit records, hasNext says that more than limit
\* selected records remain after the segment skip, and the page is the first
\* limit of the fetched rows (the extra row is not in it).
C2_AtMostLimitAndHasNext ==
    EventsOK =>
       LET limit == resp.limit
           skipped == IF req.segment.k = "ok" /\ req.segment.v > 0
                      THEN (req.segment.v - 1) * limit ELSE 0
       IN  /\ Len(resp.data) <= limit
           /\ resp.hasNext <=> (Cardinality(Selected) - skipped > limit)
           /\ resp.data = SubSeq(sorted, skipped + 1,
                                 Min(Len(sorted), skipped + limit))

C2_Witness ==
    /\ EventsOK
    /\ resp.hasNext
    /\ Len(resp.data) = resp.limit
    /\ Len(sorted) > Len(resp.data)

C4_HasPreviousIffCursor ==
    EventsOK => (resp.hasPrevious <=> req.cursor # Absent)

C4_Witness ==
    /\ EventsOK
    /\ req.cursor = Absent
    /\ req.before # Absent
    /\ resp.data # <<>>
    /\ ~resp.hasPrevious

C7_RepeatedSegmentIdentical ==
    (req.route = "events" /\ prev # NoResponse /\ session = "none"
       /\ resp.status = 200 /\ req.segment.k = "ok" /\ req.segment.v >= 1)
    => resp = prev

\* C8: an events request whose cursor, before, from or to does not parse is
\* answered with a client error and has executed no store operation.
C8_MalformedRejectedBeforeStore ==
    (req.route = "events"
       /\ (req.cursor = Bad \/ req.before = Bad \/ req.from = Bad \/ req.to = Bad))
    => (resp.status \in 400..499 /\ ops = <<>>)

\* C9: the count runs only for includeTotalCount=true and then exactly once
\* for a served request; totalCount is absent otherwise and, when present,
\* is the number of selected events whatever limit and segment are.
C9_CountIffRequested ==
    req.route = "events" =>
       LET counted == Cardinality({i \in DOMAIN ops : ops[i] = "CountDocuments"})
       IN  /\ counted > 0 => req.includeTotalCount = "true"
           /\ resp.status = 200 =>
                 /\ counted = (IF req.includeTotalCount = "true" THEN 1 ELSE 0)
                 /\ resp.totalCount # NoCount <=> req.includeTotalCount = "true"
                 /\ req.includeTotalCount = "true"
                       => resp.totalCount = Cardinality(Selected)

C9_Witness ==
    /\ EventsOK
    /\ req.includeTotalCount = "true"
    /\ req.segment = Str(2)
    /\ resp.totalCount = 3
    /\ Len(resp.data) = 1

KeyPercent(key) ==
    IF key = "p50" THEN 50 ELSE IF key = "p99" THEN 99 ELSE 95

\* Confirmed samples sent inside the window the request asks for.
WindowSample ==
    {i \in DOMAIN votes : /\ votes[i].status = "confirmed"
                          /\ WindowLo <= votes[i].sentTime
                          /\ votes[i].sentTime <= WindowHi}

\* T(p): the p-th percentile of latency over the window's confirmed samples.
T(p) == PercentileOf(WindowSample, p)

AboveT(p) == {i \in WindowSample : votes[i].latency >= T(p)}

\* All pages 1..totalPages of the table have been read.
TableRead == req.route = "votes" /\ resp.status = 200 /\ session = "done"

\* C11: when all pages of the vote-latency table have been read, the rows
\* returned are exactly the window's confirmed samples with latency >= T(p)
\* for the requested key p (p95 for an unknown or absent key), and
\* T(p50) <= T(p95) <= T(p99).
C11_AllPagesAreAboveThresholdSet ==
    (TableRead /\ WindowSample # {}) =>
        /\ Range(pages) = AboveT(KeyPercent(req.threshold))
        /\ T(50) <= T(95)
        /\ T(95) <= T(99)

AscendingSentTime(seq) ==
    \A i \in 1..(Len(seq) - 1) :
        votes[seq[i]].sentTime <= votes[seq[i + 1]].sentTime

\* Rows left for page k of a table of n rows with pp rows per page.
RowsOnPage(n, k, pp) ==
    IF n <= (k - 1) * pp THEN 0 ELSE Min(pp, n - (k - 1) * pp)

\* C12: the vote-latency table is offset-paginated in ascending sentTime:
\* every page reports total = number of above-threshold samples and
\* totalPages = ceil(total / perPage) and holds the rows of its offsets in
\* ascending sentTime, and pages 1..totalPages together hold every
\* above-threshold sample exactly once.
C12_OffsetPagesCoverOnce ==
    (req.route = "votes" /\ resp.status = 200 /\ session # "none"
       /\ WindowSample # {}) =>
        LET above == AboveT(KeyPercent(req.threshold))
            pp == req.perPage.v
        IN  /\ resp.total = Cardinality(above)
            /\ resp.totalPages * pp >= resp.total
            /\ (resp.totalPages - 1) * pp < resp.total
            /\ Len(resp.data) = RowsOnPage(resp.total, req.page.v, pp)
            /\ AscendingSentTime(pages)
            /\ session = "done" =>
                  (NoDuplicates(pages) /\ Range(pages) = above)

\* A vote-latency request that reaches the store and meets no store failure.
VotesServed ==
    req.route = "votes" /\ req.id = "known" /\ req.fault = "none"
      /\ resp.status # 400

\* C13: when the window holds no confirmed sample, the vote-latency request
\* answers 200 with an empty data list and total 0, and the only pipeline it
\* has run is the percentile one: neither the count nor the data pipeline.
C13_EmptyWindowIsFinal ==
    (VotesServed /\ WindowSample = {}) =>
        /\ resp.status = 200
        /\ resp.data = <<>>
        /\ resp.total = 0
        /\ ops = <<"FindOne", "Aggregate:percentile">>

\* A request over a store that has samples, none of them confirmed in the
\* window.
C13_Witness ==
    /\ VotesServed
    /\ WindowSample = {}
    /\ votes # <<>>
    /\ resp.status = 200
    /\ resp.data = <<>>


\* ------------------------------------------------ tracer-event metrics
\* A windowed metric request on the given route that met no failure.
Served(route) == req.route = route /\ resp.status = 200
InWindow(t) == WindowLo <= t /\ t <= WindowHi

\* sendVote events of the simulation inside the window.
SendsInWindow ==
    {i \in DOMAIN events : events[i].type = "sendVote"
                           /\ InWindow(events[i].timestamp)}

\* receiveVote events that match send i: same height, round and validator
\* index, source peer = the sender, receiving node = the send's recipient.
Matching(i) ==
    {j \in DOMAIN events :
        /\ events[j].type = "receiveVote"
        /\ events[j].vote = events[i].vote
        /\ events[j].sourcePeerId = events[i].nodeId
        /\ events[j].nodeId = events[i].recipientPeerId}

\* C14: the block latency time series holds exactly one point for every
\* sendVote in the window that has a matching receiveVote, with latency =
\* receive timestamp - send timestamp, no point for a sendVote without a
\* matching receiveVote, and no point for a pair that does not match.
C14_OnePointPerMatchedSend ==
    Served("timeseries") =>
        /\ \A i \in SendsInWindow :
              IF Matching(i) = {}
              THEN \A p \in resp.data : p.send # i
              ELSE /\ Cardinality({p \in resp.data : p.send = i}) = 1
                   /\ \A p \in resp.data : p.send = i =>
                         \E j \in Matching(i) :
                            p.latencyMs = events[j].timestamp - events[i].timestamp
        /\ \A p \in resp.data :
              p.send \in SendsInWindow /\ p.recv \in Matching(p.send)

\* (send, receive) pairs of the simulation whose send and receive both lie
\* inside the window: the confirmed samples of the query.
ConfirmedPairs ==
    {pr \in (DOMAIN events) \X (DOMAIN events) :
        /\ pr[1] \in SendsInWindow
        /\ pr[2] \in Matching(pr[1])
        /\ InWindow(events[pr[2]].timestamp)}

SumCounts(hist) ==
    SumOver(DOMAIN hist, [b \in DOMAIN hist |-> hist[b].count])

\* C15: a send whose matching receive lies outside the window is no sample
\* of the query: every point of the time series has its receive inside the
\* window, and the histogram and the jitter groups of the latency stats count
\* only pairs whose receive is inside the window.
C15_ReceiveOutsideWindowExcluded ==
    /\ Served("timeseries") =>
          \A p \in resp.data : InWindow(lookup[p.recv].timestamp)
    /\ Served("stats") =>
          /\ SumCounts(resp.data.Histogram) <= Cardinality(ConfirmedPairs)
          /\ \A e \in resp.data.Jitter :
                \E pr \in ConfirmedPairs :
                   /\ events[pr[1]].nodeId = e.sender
                   /\ events[pr[1]].recipientPeerId = e.receiver

\* A windowed metric request on the given route with a well-formed window,
\* a known simulation and no store failure.
Asked(route) ==
    req.route = route /\ req.id = "known" /\ req.fault = "none"
      /\ resp.status # 400

\* (round start, complete block) pairs: an enteringNewRound event inside the
\* window and a receivedCompleteProposalBlock event at the same height.
BlockPairs ==
    {pr \in (DOMAIN events) \X (DOMAIN events) :
        /\ events[pr[1]].type = "enteringNewRound"
        /\ InWindow(events[pr[1]].timestamp)
        /\ events[pr[2]].type = "receivedCompleteProposalBlock"
        /\ events[pr[2]].height = events[pr[1]].height}

PairsAt(h) == {pr \in BlockPairs : events[pr[1]].height = h}

\* The latency at rank ceil(n*p/100) among the pairs' timestamp differences.
PairPercentile(P, p) ==
    LET key == [pr \in P |-> events[pr[2]].timestamp - events[pr[1]].timestamp]
        srt == CHOOSE s \in SortAscending(P, key) : TRUE
        rank == (Len(srt) * p + 99) \div 100
    IN  key[srt[IF rank < 1 THEN 1 ELSE rank]]

\* C16: the end-to-end result has an entry for exactly the heights that have
\* at least one (enteringNewRound in the window, receivedCompleteProposalBlock)
\* pair, and the entry's p50 and p95 are the percentiles of the timestamp
\* differences of all of that height's pairs.
C16_EntryPerHeightWithPair ==
    Asked("end_to_end") =>
        /\ resp.status = 200
        /\ {e.height : e \in resp.data} = {events[pr[1]].height : pr \in BlockPairs}
        /\ \A e \in resp.data :
              /\ e.p50Ms = PairPercentile(PairsAt(e.height), 50)
              /\ e.p95Ms = PairPercentile(PairsAt(e.height), 95)

\* Vote events inside the window and their (height, sender, receiver) group.
VoteEventsInWindow ==
    {i \in DOMAIN events : events[i].type \in {"sendVote", "receiveVote"}
                           /\ InWindow(events[i].timestamp)}

GroupOf(i) ==
    IF events[i].type = "sendVote"
    THEN <<events[i].vote.height, events[i].nodeId, events[i].recipientPeerId>>
    ELSE <<events[i].vote.height, events[i].sourcePeerId, events[i].nodeId>>

\* C17: the success-rate result has one entry per (height, sender, receiver)
\* group of the window's sendVote and receiveVote events; sentCount is the
\* group's number of sendVote events, recvCount its number of receiveVote
\* events, and successRate = recvCount / sentCount, 0 when sentCount = 0.
C17_CountsBothEventTypes ==
    Asked("success_rate") =>
        /\ resp.status = 200
        /\ {<<e.height, e.sender, e.receiver>> : e \in resp.data}
              = {GroupOf(i) : i \in VoteEventsInWindow}
        /\ \A e \in resp.data :
              LET g == {i \in VoteEventsInWindow :
                           GroupOf(i) = <<e.height, e.sender, e.receiver>>}
                  sent == Cardinality({i \in g : events[i].type = "sendVote"})
                  recv == Cardinality({i \in g : events[i].type = "receiveVote"})
              IN  /\ e.sentCount = sent
                  /\ e.recvCount = recv
                  /\ IF sent = 0 THEN e.successRate.num = 0
                     ELSE e.successRate.num * sent = recv * e.successRate.den

\* Correlated samples of the latency stats: the (send, receive) pairs of the
\* window's sends, and the pairs of one (sender, receiver) group.
CorrelatedPairs ==
    {pr \in (DOMAIN events) \X (DOMAIN events) :
        pr[1] \in SendsInWindow /\ pr[2] \in Matching(pr[1])}

PairsOfGroup(s, r) ==
    {pr \in CorrelatedPairs : /\ events[pr[1]].nodeId = s
                              /\ events[pr[1]].recipientPeerId = r}

\* C19: a (sender, receiver) group with exactly one correlated sample does
\* not make the latency stats query fail, and the response carries no
\* standard deviation for it: no jitter entry, or one whose stdDevMs is null.
C19_SingleSampleJitterOmitted ==
    (Asked("stats") /\ \E np \in NodePairs :
                          Cardinality(PairsOfGroup(np[1], np[2])) = 1) =>
        /\ resp.status = 200
        /\ \A e \in resp.data.Jitter :
              Cardinality(PairsOfGroup(e.sender, e.receiver)) = 1
                 => e.stdDevMs = Null

\* ------------------------------------------------------- vote statistics
\* The window's confirmed samples of one (sender, receiver, voteType) group.
GroupSamples(s, r, ty) ==
    {i \in WindowSample : /\ votes[i].senderPeerId = s
                          /\ votes[i].recipientPeerId = r
                          /\ votes[i].vote.type = ty}

\* Samples of G at or above twice G's own p95.
SpikesOf(G) ==
    {i \in G : votes[i].latency >= 2 * PercentileOf(G, 95)}

\* C18: every row of the vote statistics has spikePerc = 100 * (number of
\* the group's samples with latency >= 2 * the group's own p95) / count; it
\* lies in [0, 100] and is 0 when no sample of the group reaches 2 * p95;
\* samples of other groups have no part in it.
C18_SpikePercOfOwnGroup ==
    Served("statistics") =>
        \A e \in resp.data :
            LET G == GroupSamples(e.sender, e.receiver, e.voteType)
            IN  /\ e.count = Cardinality(G)
                /\ e.spikePerc.den > 0
                /\ e.spikePerc.num * e.count
                      = 100 * Cardinality(SpikesOf(G)) * e.spikePerc.den
                /\ 0 <= e.spikePerc.num
                /\ e.spikePerc.num <= 100 * e.spikePerc.den
                /\ SpikesOf(G) = {} => e.spikePerc.num = 0

\* Two groups in one response, one with spikes and one whose latencies would
\* move the other's threshold if they were pooled.
C18_Witness ==
    /\ Served("statistics")
    /\ \E e1, e2 \in resp.data :
          /\ e1 # e2
          /\ e1.spikePerc.num > 0
          /\ e1.spikePerc.num < 100 * e1.spikePerc.den
          /\ e2.spikePerc.num = 0

\* ------------------------------------------------------ network overview
\* Every (pair, messageType) entry of the stored summaries.
AllEntries ==
    {e \in (DOMAIN summaries) \X MsgTypes :
        summaries[e[1]].messageTypes[e[2]] # NoEntry}

SumWeighted ==
    SumOver(AllEntries,
            [e \in AllEntries |->
                summaries[e[1]].messageTypes[e[2]].p95LatencyMs
                  * summaries[e[1]].messageTypes[e[2]].count])
SumCount ==
    SumOver(AllEntries,
            [e \in AllEntries |-> summaries[e[1]].messageTypes[e[2]].count])

\* C20: overallWeightedAvgP95 = (sum over every entry of p95LatencyMs *
\* count) / (sum over every entry of count), and 0, with a 200 response, when
\* the total count is 0.
C20_OverallIsCountWeightedMean ==
    (req.route = "overview" /\ req.id = "known" /\ req.fault = "none") =>
        /\ resp.status = 200
        /\ LET avg == resp.data.overallWeightedAvgP95LatencyMs
           IN  IF SumCount = 0 THEN avg.num = 0
               ELSE avg.num * SumCount = SumWeighted * avg.den

\* Every stored entry passes the type assertions of the loop.
AllEntriesTyped == AllEntries = Accepted(DOMAIN summaries)
SummaryNodes ==
    {summaries[i].node1Id : i \in DOMAIN summaries}
        \cup {summaries[i].node2Id : i \in DOMAIN summaries}
\* The entries of the pairs that node n is an endpoint of.
Touching(n) ==
    {e \in AllEntries : \/ summaries[e[1]].node1Id = n
                        \/ summaries[e[1]].node2Id = n}
TouchingWeighted(n) ==
    SumOver(Touching(n), [e \in Touching(n) |-> WeightedP95(e)])
TouchingCount(n) ==
    SumOver(Touching(n), [e \in Touching(n) |-> EntryCount(e)])

\* C21: every entry credits half of its weighted value and half of its count
\* to each endpoint, and a node's average is its weighted sum over its count:
\* (sum of weighted / 2) / (sum of count / 2) over the entries of its pairs.
C21_HalfToEachEndpoint ==
    (Asked("overview") /\ AllEntriesTyped) =>
        /\ resp.status = 200
        /\ \A n \in SummaryNodes :
              TouchingCount(n) > 0 =>
                  /\ n \in DOMAIN resp.data.nodeLatencyContribution
                  /\ LET avg == resp.data.nodeLatencyContribution[n]
                     IN  avg.num * TouchingCount(n)
                            = TouchingWeighted(n) * avg.den

\* C22: the per-node weighted sums add up to the global weighted sum, the
\* per-node counts to the global count, and so the per-node averages weighted
\* by the per-node counts give overallWeightedAvgP95.
C22_NodeTotalsConserved ==
    (Asked("overview") /\ AllEntriesTyped) =>
        LET E == Accepted(DOMAIN summaries)
            nodeWeightedTwice ==
                SumOver(SummaryNodes,
                        [n \in SummaryNodes |-> NodeWeightedTwice(E, n)])
            nodeCount ==
                SumOver(SummaryNodes, [n \in SummaryNodes |-> NodeCount(E, n)])
            overall == resp.data.overallWeightedAvgP95LatencyMs
        IN  /\ resp.status = 200
            /\ nodeWeightedTwice = 2 * TotalWeighted(E)
            /\ nodeCount = TotalCount(E)
            /\ nodeCount > 0 =>
                   overall.num * 2 * nodeCount = nodeWeightedTwice * overall.den

\* C23: the message type and the node reported as highest have the largest
\* of the per-type and per-node averages, and two requests over the same
\* collection report the same message type and the same node.
C23_HighestIsDeterministic ==
    (req.route = "overview" /\ resp.status = 200) =>
        /\ \A mt \in DOMAIN resp.data.messageTypeLatency :
              ~Greater(resp.data.messageTypeLatency[mt],
                       resp.data.messageTypeWithHighestAvgP95.latencyMs)
        /\ \A n \in DOMAIN resp.data.nodeLatencyContribution :
              ~Greater(resp.data.nodeLatencyContribution[n],
                       resp.data.nodeWithHighestAvgP95.latencyMs)
        /\ prev.status = 200 =>
              /\ resp.data.messageTypeWithHighestAvgP95
                    = prev.data.messageTypeWithHighestAvgP95
              /\ resp.data.nodeWithHighestAvgP95
                    = prev.data.nodeWithHighestAvgP95

\* C24: a query answers 200 only with a result computed from every record it
\* selects; when reading or decoding one of them fails, the request fails.
\* For the overview: the data of a 200 response is what the loop gives over
\* every stored summary.
C24_AllOrNothing ==
    (req.route = "overview" /\ resp.status = 200) =>
        \E o \in GetNetworkLatencyOverview("none") : resp.data = o.data

\* ------------------------------------------------------------- timeouts
\* C25: every store access made for a query request, the lookup of the
\* simulation included, runs under a timeout of 15 to 30 seconds; when the
\* timeout fires the request is answered with a failure, and the query is
\* issued once.
C25_EveryAccessTimesOut ==
    /\ Waiting =>
          /\ access.deadline >= MetricsTimeoutSeconds
          /\ access.deadline <= EventsTimeoutSeconds
          /\ access.elapsed <= access.deadline
    /\ access.timedOut => access.status >= 500
    /\ access.issued <= 1

\* --------------------------------------------------------- rate limiter
\* Callers between Lock and Unlock.
InAllow == {g \in Callers :
               callers[g].pc \in {"lookup", "refill", "check", "take", "unlock"}}
\* Requests of client c let through at the readings i..j of its meter.
RECURSIVE LetThrough(_, _, _)
LetThrough(c, i, j) ==
    IF i > j THEN 0 ELSE meter[c][i].count + LetThrough(c, i + 1, j)

\* C26: a client's tokens stay in [0, burst]; one goroutine at a time is
\* inside Allow, an allowed request takes exactly one token and a refused one
\* finds none; a client's first request is allowed; and between any two
\* instants a client is let through at most burst + rate * (minutes elapsed)
\* times.
C26_NeverMoreThanBudget ==
    /\ \A c \in ClientIDs :
          clients[c].exists =>
              clients[c].tokens >= 0 /\ clients[c].tokens <= Burst
    /\ Cardinality(InAllow) <= 1
    /\ \A g \in Callers :
          callers[g].pc = "unlock" =>
              LET k == callers[g]
              IN  /\ k.first => k.allowed
                  /\ k.allowed => clients[k.clientID].tokens = k.before - 1
                  /\ ~k.allowed => k.before = 0 /\ clients[k.clientID].tokens = 0
    /\ \A c \in ClientIDs :
          \A i, j \in DOMAIN meter[c] :
              i <= j =>
                  LetThrough(c, i, j) - Burst
                      <= TokensToAdd(meter[c][j].at - meter[c][i].at)

\* A client out of tokens is refused while the other goroutine waits for the
\* mutex with a request of the same client.
C26_Witness ==
    \E g, h \in Callers :
        /\ callers[g].pc = "unlock"
        /\ ~callers[g].allowed
        /\ callers[h].pc = "lock"
        /\ callers[h].clientID = callers[g].clientID
        /\ LetThrough(callers[g].clientID, 1, Len(meter[callers[g].clientID]))
              = Burst

\* C27: the tokens credited between two instants depend on the time elapsed
\* only, so a client that keeps sending requests is let through again once
\* the time of one token has passed: a request is refused only less than one
\* token's time after the client's last request that was let through.
C27_ReplenishByElapsedTime ==
    \A g \in Callers :
        (callers[g].pc = "unlock" /\ ~callers[g].allowed) =>
            LET m == meter[callers[g].clientID]
            IN  /\ m # <<>>
                /\ TokensToAdd(callers[g].at - m[Len(m)].at) = 0

\* ------------------------------------------------- simulations and ETL
RunsInProgress == {r \in RunIDs : runs[r] \in {"spawned", "running"}}

\* C28: at most one ETL run of the simulation is in progress at any time.
C28_OneRunAtATime == Cardinality(RunsInProgress) <= 1

Outcomes == {<<"processed", "completed">>, <<"failed", "failed">>}
StatusPair(sim) == <<sim.status, sim.processingStatus>>

\* C29: once a run has recorded (processed, completed) or (failed, failed),
\* the pair changes only through a later process request or the run it
\* started; an upload request never changes it.
C29_OutcomeIsKept ==
    [][(StatusPair(simulation) \in Outcomes
           /\ StatusPair(simulation') # StatusPair(simulation))
          => \E h \in Handlers :
                \/ handlers[h].kind = "process" /\ handlers'[h].pc = "done"
                                                /\ handlers[h].pc # "done"
                \/ runs[h] = "running" /\ runs'[h] = "finished"]_vars

\* C30: the logFiles list has an entry for the file of every upload request
\* answered 200, and no two entries have the same stored path.
C30_NoUploadForgotten ==
    /\ \A h \in Handlers :
          (handlers[h].kind = "upload" /\ handlers[h].status = 200) =>
              \E i \in DOMAIN simulation.logFiles :
                  simulation.logFiles[i].by = h
    /\ \A i, j \in DOMAIN simulation.logFiles :
          i # j => simulation.logFiles[i].path # simulation.logFiles[j].path
====
